---------------------------- MODULE Spec2Model ----------------------------
(***************************************************************************)
(* Build discovery of Blender-Launcher-V2: the Scraper thread               *)
(* (source/threads/scraper.py) with its two persistent caches               *)
(* (source/modules/scraper_cache.py).                                       *)
(*                                                                         *)
(* One run of Scraper.get_download_links chains the enabled generators      *)
(* scrap_stable_releases, scrape_automated_releases, scrape_bfa_releases    *)
(* and emits every build they yield.  A step of the model is the code      *)
(* between two network requests of the worker thread: the request, the     *)
(* handling of its response and every yield (= links.emit) up to the next  *)
(* request.                                                                *)
(*                                                                         *)
(* Versions: the stable folder "Blender4.k/" (Version(4,k,0)) and the      *)
(* community directory "Bforartists 4.k.0" are written k.  Dates are       *)
(* naturals, EPOCH is 0.                                                    *)
(***************************************************************************)
EXTENDS Naturals, Sequences, FiniteSets

(***************************************************************************)
(* Bounds of the environment.                                              *)
(***************************************************************************)
\* folders "Blender4.1/" .. "Blender4.<MaxFolders>/" may be listed in the stable index
MaxFolders == 2
\* directories 1 .. MaxBfaFolders may be listed in the community share
MaxBfaFolders == 2
\* folder modification dates (and file dates) are 1 .. MaxDate
MaxDate == 2
\* Last-Modified dates of the files are 1 .. MaxFileDate
MaxFileDate == 1
\* folders and directories listed to the thread over all of its runs
MaxVisits == 2

\* modules/settings.py EPOCH, the date of a snapshot made by new_build
EPOCH == 0

Dates == 1..MaxDate

(***************************************************************************)
(* Sequences.                                                              *)
(***************************************************************************)
RECURSIVE SelectIdx(_, _, _)
\* the subsequence of s at the indices of S that are >= i, in order
SelectIdx(s, S, i) ==
    IF i > Len(s) THEN <<>>
    ELSE (IF i \in S THEN <<s[i]>> ELSE <<>>) \o SelectIdx(s, S, i + 1)

\* every subsequence of s: what a directory holding some of the files of s lists
SubSeqs(s) == { SelectIdx(s, S, 1) : S \in SUBSET (1..Len(s)) }

\* builds that are held back: nothing is forwarded
HeldBack(builds) == <<>>

\* the builds the generators yield reach `for build in chain(*scrapers):
\* self.links.emit(build)`: one links event per build, in order
MapEmit(builds) ==
    [i \in 1..Len(builds) |-> [type |-> "links", build |-> builds[i]]]


(***************************************************************************)
(* Hosts, file names and the filename filters of Scraper.__init__.         *)
(***************************************************************************)
\* <<get_platform(), get_architecture()>> of the hosts considered
Hosts == { <<"Linux", "x64">>, <<"macOS", "arm64">> }

\* the anchors of the folder pages considered, in page order: names after
\* STABLE_FOLDER_TEMPLATE, and two names that carry no version number
FolderPages ==
    { << "blender-4.1.0.md5", "blender-4.1.0.sha256" >>,
      << "blender-4.1.0-linux-x64.tar.xz", "blender-4.1.0-macos-arm64.dmg",
         "blender-4.1.0-macos-x64.dmg", "blender-4.1.0.sha256",
         "blender-4.1.1-linux-x64.tar.xz" >>,
      << "blender-4.1.0-linux-x64.tar.xz", "blender-4.1.0-macos-arm64.dmg",
         "blender-latest-linux-x64.tar.xz", "blender-latest-macos-arm64.dmg" >> }

\* self.b3d_link: the names among those of FolderPages and BuilderEntries that regex_filter of the platform
\* matches (Linux: blender-.+lin.+64.+tar+(?!.*sha256).*, macOS:
\* blender-.+(macOS|darwin).+dmg$, Windows: blender-.+win.+64.+zip$)
B3dLinkMatches(plat, href) ==
    CASE plat = "Linux" -> href \in { "blender-4.1.0-linux-x64.tar.xz",
                                      "blender-4.1.1-linux-x64.tar.xz",
                                      "blender-latest-linux-x64.tar.xz",
                                      "blender-4.2.0-linux.x86_64-release.tar.xz",
                                      "blender-4.2.0-linux.amd64-release.tar.xz" }
      [] plat = "macOS" -> href \in { "blender-4.1.0-macos-arm64.dmg",
                                      "blender-4.1.0-macos-x64.dmg",
                                      "blender-latest-macos-arm64.dmg",
                                      "blender-4.2.0-darwin.arm64-release.dmg",
                                      "blender-4.2.0-darwin.x86_64-release.dmg" }
      [] plat = "Windows" -> href \in { "blender-4.1.0-windows-x64.zip",
                                        "blender-4.2.0-windows.amd64-release.zip" }
      [] OTHER -> FALSE

\* parse_blender_ver(stem, search=True): the version found in the name, <<>> when
\* the name holds no version number (the call raises ValueError)
ParseBlenderVer(href) ==
    CASE href \in { "blender-4.1.0-linux-x64.tar.xz", "blender-4.1.0-macos-arm64.dmg",
                    "blender-4.1.0-macos-x64.dmg", "blender-4.1.0.sha256",
                    "blender-4.1.0.md5" } -> <<"4.1.0">>
      [] href = "blender-4.1.1-linux-x64.tar.xz" -> <<"4.1.1">>
      [] OTHER -> <<>>

\* "arm64" in link
HasArm64(href) ==
    href \in { "blender-4.1.0-macos-arm64.dmg", "blender-latest-macos-arm64.dmg" }

\* "x64" in link
HasX64(href) ==
    href \in { "blender-4.1.0-linux-x64.tar.xz", "blender-4.1.0-macos-x64.dmg",
               "blender-4.1.1-linux-x64.tar.xz", "blender-latest-linux-x64.tar.xz" }

\* a page whose anchors are all taken, whatever their names
AllAnchors(plat, hrefs) == hrefs

RECURSIVE FilterLinks(_, _)
\* soup.find_all(href=self.b3d_link): the listed hrefs the filter matches, in order
FilterLinks(plat, hrefs) ==
    IF hrefs = <<>> THEN <<>>
    ELSE (IF B3dLinkMatches(plat, Head(hrefs)) THEN <<Head(hrefs)>> ELSE <<>>)
         \o FilterLinks(plat, Tail(hrefs))

\* BuildInfo(link, subversion, build_hash, commit_time, branch, custom_executable);
\* the version is <<numbers, prerelease>>, the prerelease a sequence of its parts;
\* "None" is None
BuildInfo(link, version, build_hash, commit_time, branch, custom_executable) ==
    [link |-> link, version |-> version, build_hash |-> build_hash,
     commit_time |-> commit_time, branch |-> branch,
     custom_executable |-> custom_executable]

\* lines 355-361: the last run of twelve word characters of the stem of the link
\* (self.hash is \w{12}), None when the stem holds none.  No name of FolderPages
\* holds twelve word characters in a row.
BuildHash(href) == "None"

(***************************************************************************)
(* Responses of ConnectionManager.request: status 0 is "no response"       *)
(* (request returned None).                                                *)
(***************************************************************************)
NoResponse == [status |-> 0, last_modified |-> 0]

ProbeResponses ==
    {NoResponse} \cup [status : {200, 404}, last_modified : 1..MaxFileDate]

\* new_blender_build(tag, url, "stable"): kind "none" (return None), "error"
\* (ValueError of parse_blender_ver) or "build" with the BuildInfo
NewBlenderBuild(plat, arch, ver, href, r) ==
    IF r.status = 0 THEN [kind |-> "none"]
    ELSE IF r.status # 200 THEN [kind |-> "none"]
    ELSE IF ParseBlenderVer(href) = <<>> THEN [kind |-> "error"]
    ELSE IF plat = "macOS" /\ arch = "arm64" /\ ~HasArm64(href) THEN [kind |-> "none"]
    ELSE IF plat = "macOS" /\ arch = "x64" /\ ~HasX64(href) THEN [kind |-> "none"]
    ELSE [kind |-> "build",
          build |-> BuildInfo(<<"release", ver, href>>, <<ParseBlenderVer(href)[1], <<>>>>,
                              BuildHash(href), r.last_modified, "stable", "None")]

(***************************************************************************)
(* Events of a run: requests, emitted signals and cache file writes.       *)
(***************************************************************************)
Request(method, url) == [type |-> "request", method |-> method, url |-> url]

\* self.links.emit(build)
Emit(build) == [type |-> "links", build |-> build]

StableError == [type |-> "stable_error"]

Write(file) == [type |-> "write", file |-> file]

\* the source an event belongs to, read from its content: the url requested, the
\* branch of the build, the file written
SourceOf(e) ==
    CASE e.type = "request" ->
            (CASE e.url[1] = "release" -> "stable"
               [] e.url[1] = "builder" -> "automated"
               [] OTHER -> "bfa")
      [] e.type = "links" ->
            (CASE e.build.branch = "stable" -> "stable"
               [] e.build.branch = "bforartists" -> "bfa"
               [] OTHER -> "automated")
      [] e.type = "write" -> e.file
      [] OTHER -> "stable"

RECURSIVE Sources(_, _)
\* o extended by the sources of the events evs, consecutive repetitions written once
Sources(o, evs) ==
    IF evs = <<>> THEN o
    ELSE LET s == SourceOf(Head(evs))
         IN  Sources(IF o # <<>> /\ o[Len(o)] = s THEN o ELSE Append(o, s), Tail(evs))


(***************************************************************************)
(* State.                                                                  *)
(***************************************************************************)
VARIABLES
    platform, architecture,     \* Scraper.platform, Scraper.architecture
    scrape_stable, scrape_automated, scrape_bfa,    \* the settings read by __init__
    cache, bfa_cache,           \* Scraper.cache, Scraper.bfa_cache: version -> StableFolder
    cache_file, bfa_cache_file, \* the files at cache_path, bfa_cache_path: <<>> or <<dict>>
    pc,                         \* where the worker thread stands
    scrapers,                   \* the generators chain() has not exhausted, first = running
    releases, idx,              \* scrap_stable_releases: the release anchors, the loop position
    minimum_smver_version,      \* scrap_stable_releases: the version floor
    cache_modified,             \* the running adapter's local cache_modified
    links,                      \* scrap_download_links: the matching anchors not yet probed;
                                \* scrape_bfa_releases: the builds of the listing not yet yielded;
                                \* scrape_automated_releases: the positions the second loop
                                \* has not reached
    branches,                   \* scrape_automated_releases: the branches not yet fetched
    data,                       \* scrape_automated_releases: the document of the last branch parsed
    entries,                    \* scrape_bfa_releases: the version directories of the share
    response,                   \* the status of the last response (0: request returned None)
    mode,                       \* how the current release folder is handled
    trace,                      \* history: the events of the current resource (folder, branch)
    order,                      \* history: the sources of the run's events, in order
    cache0, bfa_cache0,         \* history: the caches when the run began
    visits,                     \* history: the folders and directories listed so far
    held,                       \* history: the responses of this run obtained and not released
    abandoned,                  \* history: a crawl of this run was left by an exception, its
                                \* folder page unreleased
    aborted,                    \* whether the last run ended by an exception
    line_edit,                  \* FolderSelector.line_edit.text()
    is_valid,                   \* FolderSelector.__is_valid
    check_relatives, check_perms,   \* FolderSelector.check_relatives, check_perms
    default_choose_dir,         \* FolderSelector.default_choose_dir
    dlg,                        \* FolderSelector.dlg: <<>> or <<the folder the dialog asks about>>
    last_emitted                \* history: <<>> or <<the last value validity_changed emitted>>

config == <<platform, architecture, scrape_stable, scrape_automated, scrape_bfa>>
stable_locals == <<releases, idx, minimum_smver_version, links, mode, response>>
other_locals == <<branches, entries, data>>
history == <<cache0, bfa_cache0, visits, held, abandoned>>
widget == <<line_edit, is_valid, check_relatives, check_perms, default_choose_dir, dlg,
            last_emitted>>
vars == <<config, widget, cache, bfa_cache, cache_file, bfa_cache_file, pc, scrapers,
          stable_locals, other_locals, cache_modified, trace, order, history, aborted>>

\* no FolderSelector has been constructed
NoWidget ==
    /\ line_edit = <<>> /\ is_valid = FALSE /\ check_relatives = TRUE /\ check_perms = TRUE
    /\ default_choose_dir = <<>> /\ dlg = <<>> /\ last_emitted = <<>>

(***************************************************************************)
(* scraper_cache.py                                                        *)
(***************************************************************************)
\* StableCache(): no folders
EmptyCache == [v \in {} |-> [assets |-> <<>>, modified_date |-> EPOCH, under |-> <<>>]]

\* a folder that is always dated EPOCH
NewFolderAtEpoch(dt) == [assets |-> <<>>, modified_date |-> EPOCH, under |-> <<>>]

\* line 65: StableFolder([], dt if dt is not None else EPOCH); dt is <<>> for None and
\* <<date>> otherwise.  `under` is history: for each asset the folder date it was
\* scraped under.
NewFolder(dt) ==
    [assets |-> <<>>, modified_date |-> IF dt = <<>> THEN EPOCH ELSE dt[1], under |-> <<>>]

\* StableCache.new_build(ver, dt): the cache after the call; the folder returned is
\* the one registered at ver
NewBuildAt(c, ver, dt) ==
    [v \in DOMAIN c \cup {ver} |-> IF v = ver THEN NewFolder(dt) ELSE c[v]]

\* StableCache.new_build(ver): the call without a date
NewBuild(c, ver) == NewBuildAt(c, ver, <<>>)

\* BuildInfo.to_dict as the cache file holds it: a dict whose "blinfo" is a list of
\* one dict of the record's fields (StableFolder.from_dict reads build["blinfo"][0])
BuildToDict(b) ==
    [blinfo |-> << [subversion |-> b.version, build_hash |-> b.build_hash,
                    commit_time |-> <<"time", b.commit_time>>,
                    branch |-> b.branch, custom_executable |-> b.custom_executable] >>]

\* StableFolder.to_dict
FolderToDict(f) ==
    [assets |-> [i \in 1..Len(f.assets) |-> <<f.assets[i].link, BuildToDict(f.assets[i])>>],
     modified_date |-> <<"iso", f.modified_date>>]

\* StableCache.to_dict: the folders under str(version)
ToDict(c) == [folders |-> { <<<<"str", v>>, FolderToDict(c[v])>> : v \in DOMAIN c }]

\* the result of a call that raised
Raised == [kind |-> "raise"]

\* BuildInfo.from_dict(link, blinfo)
BuildFromDict(link, blinfo) ==
    BuildInfo(link, blinfo.subversion, blinfo.build_hash, blinfo.commit_time[2],
              blinfo.branch, blinfo.custom_executable)

\* StableFolder.from_dict: the folder, or Raised (KeyError of a missing key,
\* ValueError of datetime.fromisoformat).  The history `under` of a folder read from
\* a file is the folder's date.
FolderFromDict(dct) ==
    IF ~({"assets", "modified_date"} \subseteq DOMAIN dct) THEN Raised
    ELSE IF \E i \in 1..Len(dct.assets) : "blinfo" \notin DOMAIN dct.assets[i][2]
    THEN Raised
    ELSE IF dct.modified_date[1] # "iso" THEN Raised
    ELSE [kind |-> "folder",
          folder |-> [assets |-> [i \in 1..Len(dct.assets) |->
                                     BuildFromDict(dct.assets[i][1],
                                                   dct.assets[i][2].blinfo[1])],
                      modified_date |-> dct.modified_date[2],
                      under |-> [i \in 1..Len(dct.assets) |-> dct.modified_date[2]]]]

\* dct.get("folders", {})
FoldersOf(dct) == IF "folders" \in DOMAIN dct THEN dct.folders ELSE {}

\* StableCache.from_dict: the cache, or Raised (AttributeError of a document that is
\* no dict, ValueError of Version.parse, an exception of StableFolder.from_dict)
FromDict(dct) ==
    IF "list" \in DOMAIN dct THEN Raised
    ELSE IF \E item \in FoldersOf(dct) :
                item[1][1] # "str" \/ FolderFromDict(item[2]).kind = "raise"
    THEN Raised
    ELSE [kind |-> "cache",
          cache |-> [v \in { item[1][2] : item \in FoldersOf(dct) } |->
                        FolderFromDict((CHOOSE item \in FoldersOf(dct) :
                                            item[1][2] = v)[2]).folder]]

\* StableCache.try_from_file: the cache, Raised, or kind "none" (None is returned for
\* a file json.load rejects).  A file is <<>> when absent (FileNotFoundError of
\* file.open) and <<document>> otherwise; a document with the field bytes is no
\* UTF-8 text (UnicodeDecodeError of json.load, which line 77 does not catch), one
\* with the field text is text that is no JSON.
TryFromFile(file) ==
    IF file = <<>> THEN Raised
    ELSE IF "bytes" \in DOMAIN file[1] THEN Raised
    ELSE IF "text" \in DOMAIN file[1] THEN [kind |-> "none"]
    ELSE FromDict(file[1])

\* StableCache.from_file_or_default
FromFileOrDefault(file) ==
    IF TryFromFile(file).kind = "none" THEN [kind |-> "cache", cache |-> EmptyCache]
    ELSE TryFromFile(file)

(***************************************************************************)
(* The thread.                                                             *)
(***************************************************************************)
\* the first position of the generator that chain() runs next; get_release_tag_manager
\* follows the last one
FirstPc(s) ==
    IF s = <<>> THEN "release_tag"
    ELSE CASE Head(s) = "stable" -> "stable_index"
           [] Head(s) = "automated" -> "auto_start"
           [] OTHER -> "bfa_root"

\* the generators chained with the automated source first
AutomatedFirst(stable, automated, bfa) ==
    (IF automated THEN <<"automated">> ELSE <<>>)
    \o (IF stable THEN <<"stable">> ELSE <<>>)
    \o (IF bfa THEN <<"bfa">> ELSE <<>>)

\* get_download_links: the generators of the enabled sources, in chain order
Scrapers(stable, automated, bfa) ==
    (IF stable THEN <<"stable">> ELSE <<>>)
    \o (IF automated THEN <<"automated">> ELSE <<>>)
    \o (IF bfa THEN <<"bfa">> ELSE <<>>)

Begin(evs) == trace' = evs /\ order' = Sources(order, evs)

Then(evs) == trace' = trace \o evs /\ order' = Sources(order, evs)

ResetLocals ==
    /\ releases' = <<>> /\ idx' = 0 /\ minimum_smver_version' = 0
    /\ links' = <<>> /\ mode' = "" /\ cache_modified' = FALSE
    /\ branches' = <<>> /\ entries' = <<>> /\ data' = <<>>

\* the running generator is exhausted: chain() goes on to the next one
Exhausted ==
    /\ scrapers' = Tail(scrapers)
    /\ pc' = FirstPc(Tail(scrapers))
    /\ aborted' = aborted
    /\ ResetLocals

\* an exception leaves the generator, chain() and get_download_links: the run is over
Raise ==
    /\ scrapers' = <<>>
    /\ pc' = "idle"
    /\ aborted' = TRUE
    /\ ResetLocals

Init ==
    /\ \E h \in Hosts : platform = h[1] /\ architecture = h[2]
    /\ scrape_stable \in BOOLEAN /\ scrape_automated \in BOOLEAN /\ scrape_bfa \in BOOLEAN
    /\ cache_file = <<ToDict(EmptyCache)>> /\ bfa_cache_file = <<ToDict(EmptyCache)>>
    /\ cache = FromFileOrDefault(cache_file).cache
    /\ bfa_cache = FromFileOrDefault(bfa_cache_file).cache
    /\ pc = "idle" /\ scrapers = <<>>
    /\ releases = <<>> /\ idx = 0 /\ minimum_smver_version = 0
    /\ links = <<>> /\ mode = "" /\ cache_modified = FALSE /\ response = 0
    /\ branches = <<>> /\ entries = <<>> /\ data = <<>>
    /\ trace = <<>> /\ order = <<>>
    /\ cache0 = EmptyCache /\ bfa_cache0 = EmptyCache
    /\ visits = 0 /\ held = {} /\ abandoned = FALSE /\ aborted = FALSE
    /\ NoWidget

\* line 213 with 239-249: get_download_links, up to the first generator's first step
StartRun ==
    /\ pc = "download_links"
    /\ scrapers' = Scrapers(scrape_stable, scrape_automated, scrape_bfa)
    /\ pc' = FirstPc(scrapers')
    /\ trace' = <<>>
    /\ UNCHANGED <<order, history, aborted, config, widget, cache, bfa_cache, cache_file,
                   bfa_cache_file, stable_locals, other_locals, cache_modified>>

(***************************************************************************)
(* scrap_stable_releases                                                   *)
(***************************************************************************)
\* the text after a folder's anchor: a date, nothing, or text dateparser cannot parse
DateSiblings ==
    { [kind |-> "date", date |-> d] : d \in Dates }
    \cup { [kind |-> "missing", date |-> 0], [kind |-> "unparseable", date |-> 0] }

\* the anchors matching Blender(\d+\.\d+) of an index page: some of the folders
\* 1 .. MaxFolders in listing order, each with its date sibling
StableIndexes ==
    UNION { { [i \in 1..Len(vs) |-> [ver |-> vs[i], kind |-> f[i].kind, date |-> f[i].date]]
              : f \in [1..Len(vs) -> DateSiblings] }
            : vs \in SubSeqs([k \in 1..MaxFolders |-> k]) }

\* get_minimum_blender_stable_version(): "None" (0) or "4.2" (2)
MinimumVersions == {0, 2}

\* a folder page: no response, or one of FolderPages
FolderResponses ==
    { [status |-> 0, hrefs |-> <<>>] }
    \cup { [status |-> 200, hrefs |-> h] : h \in FolderPages }

\* a refresh that keeps what the folder held
AssetsKept(folder) == folder

\* a folder served from cache without `yield from builds`
ServedNothing(folder) == <<>>

\* line 447: the folder must be scraped again
StableStale(folder, modified_date) == folder.modified_date # modified_date

\* line 448: what the asset list is before the folder is scraped again
StableCleared(folder) == [folder EXCEPT !.assets = <<>>, !.under = <<>>]

\* lines 458-459 after a refresh, 457-459 without: the builds yielded when the folder
\* has been handled inside the date block
StableServed(folder) == MapEmit(folder.assets)

\* the responses to the index request: none, a page of some status without a
\* release anchor, a page with release anchors
IndexResponses ==
    { [status |-> 0, releases |-> <<>>] }
    \cup { [status |-> st, releases |-> <<>>] : st \in {200, 404} }
    \cup { [status |-> 200, releases |-> l] : l \in StableIndexes }

\* the error raised for every index request that gives no release anchor
FailedOrNoResponse(r) == IF r.releases = <<>> THEN <<StableError>> ELSE <<>>

\* lines 403-416: the events that follow the index request
ListingFailed(r) ==
    IF r.status # 0 /\ r.releases = <<>> THEN <<StableError>> ELSE <<>>

\* lines 401-426: the index request
StableIndex ==
    /\ pc = "stable_index"
    /\ \E r \in IndexResponses, m \in MinimumVersions :
        /\ Len(r.releases) <= MaxVisits - visits
        /\ visits' = visits + Len(r.releases)
        /\ Begin(<<Request("GET", <<"release">>)>> \o ListingFailed(r))
        /\ response' = r.status
        /\ held' = IF r.status = 0 THEN held ELSE held \cup {"index"}
        /\ IF r.status = 0 \/ r.releases = <<>>
           THEN Exhausted
           ELSE /\ releases' = r.releases /\ idx' = 1 /\ minimum_smver_version' = m
                /\ cache_modified' = FALSE
                /\ pc' = "stable_release"
                /\ UNCHANGED <<scrapers, links, mode, other_locals, aborted>>
    /\ UNCHANGED <<config, widget, cache, bfa_cache, cache_file, bfa_cache_file, cache0, bfa_cache0,
                   abandoned>>

\* a floor that also discards the folder of the minimum version itself
AtOrBelowFloor(ver, minimum) == ver <= minimum

\* line 434 (negated): the folder is below the floor and is passed over
BelowFloor(ver, minimum) == ver < minimum

\* lines 427-457: one release of the loop, up to the folder request of the refresh
\* (line 449 with 326-336), whose response is held from line 326 on
StableRelease ==
    /\ pc = "stable_release"
    /\ idx <= Len(releases)
    /\ LET e == releases[idx]
           c1 == IF e.ver \in DOMAIN cache THEN cache ELSE NewBuild(cache, e.ver)
       IN  IF BelowFloor(e.ver, minimum_smver_version)
           THEN /\ Begin(<<>>)
                /\ idx' = idx + 1 /\ mode' = "below"
                /\ UNCHANGED <<held, response, cache, pc, scrapers, other_locals, releases,
                               minimum_smver_version, links, cache_modified, aborted>>
           ELSE IF e.kind = "missing"
           THEN /\ Begin(<<>>)
                /\ pc' = "stable_plain" /\ mode' = "plain"
                /\ UNCHANGED <<held, response, cache, idx, scrapers, other_locals, releases,
                               minimum_smver_version, links, cache_modified, aborted>>
           ELSE IF e.kind = "unparseable"
           THEN /\ Begin(<<>>)
                /\ Raise
                /\ UNCHANGED <<held, response, cache>>
           ELSE IF StableStale(c1[e.ver], e.date)
           THEN \E r \in FolderResponses :
                /\ Begin(<<Request("GET", <<"release", e.ver>>)>>)
                /\ response' = r.status
                /\ cache' = [c1 EXCEPT ![e.ver] = StableCleared(@)]
                /\ held' = IF r.status = 0 THEN held ELSE held \cup {"folder"}
                /\ links' = FilterLinks(platform, r.hrefs)
                /\ pc' = "stable_links" /\ mode' = "stale"
                /\ UNCHANGED <<idx, scrapers, releases, minimum_smver_version,
                               other_locals, cache_modified, aborted>>
           ELSE /\ Begin(StableServed(c1[e.ver]))
                /\ cache' = c1
                /\ idx' = idx + 1 /\ mode' = "fresh"
                /\ UNCHANGED <<held, response, pc, scrapers, other_locals, releases, minimum_smver_version, links,
                               cache_modified, aborted>>
    /\ UNCHANGED <<config, widget, bfa_cache, cache_file, bfa_cache_file, cache0, bfa_cache0,
                   visits, abandoned>>

\* line 462 (and 326-336): the folder request of the crawl outside the date block
StablePlainIndex ==
    /\ pc = "stable_plain"
    /\ \E r \in FolderResponses :
        /\ Then(<<Request("GET", <<"release", releases[idx].ver>>)>>)
        /\ response' = r.status
        /\ held' = IF r.status = 0 THEN held ELSE held \cup {"folder"}
        /\ links' = FilterLinks(platform, r.hrefs)
    /\ pc' = "stable_links"
    /\ UNCHANGED <<config, widget, cache, bfa_cache, cache_file, bfa_cache_file, scrapers, releases,
                   idx, minimum_smver_version, mode, other_locals, cache_modified, cache0,
                   bfa_cache0, visits, abandoned, aborted>>

\* lines 450-451: a build of the refresh is stored, then yielded
StableStored(folder, build, modified_date) ==
    [folder EXCEPT !.assets = Append(@, build), !.under = Append(@, modified_date)]

\* lines 350-393: the response of the probe was obtained and the function returned
\* or raised before the release of lines 395-396
ProbeHeld(got, r) == r.status # 0 /\ got.kind # "build"

\* lines 469-470 (and 342-343): r.release_conn(); r.close()
Released(responses, r) == responses \ {r}

\* lines 336-340 with 345-397: the probe of the next matching link
StableProbe ==
    /\ pc = "stable_links"
    /\ links # <<>>
    /\ \E r \in ProbeResponses :
        LET e == releases[idx]
            href == Head(links)
            got == NewBlenderBuild(platform, architecture, e.ver, href, r)
            req == Request("HEAD", <<"release", e.ver, href>>)
        IN  /\ response' = r.status
            /\ held' = IF ProbeHeld(got, r) THEN held \cup {"probe"} ELSE held
            /\ CASE got.kind = "none" ->
                    /\ Then(<<req>>)
                    /\ links' = Tail(links)
                    /\ UNCHANGED <<cache, pc, scrapers, releases, idx, minimum_smver_version,
                                   mode, other_locals, cache_modified, abandoned, aborted>>
              [] got.kind = "build" ->
                    /\ Then(<<req>> \o MapEmit(<<got.build>>))
                    /\ links' = Tail(links)
                    /\ cache' = IF mode = "stale"
                                THEN [cache EXCEPT ![e.ver] = StableStored(@, got.build, e.date)]
                                ELSE cache
                    /\ UNCHANGED <<pc, scrapers, releases, idx, minimum_smver_version,
                                   mode, other_locals, cache_modified, abandoned, aborted>>
              [] OTHER ->
                    \* ValueError: suppressed inside the date block (line 439), where
                    \* control goes on to line 462; raised to the caller from line 462.
                    \* It leaves scrap_download_links at line 337, before the release
                    \* of lines 342-343: the folder page stays unreleased
                    IF mode = "stale"
                    THEN /\ Then(<<req>>)
                         /\ pc' = "stable_plain" /\ mode' = "plain" /\ links' = <<>>
                         /\ abandoned' = TRUE
                         /\ UNCHANGED <<cache, scrapers, releases, idx, other_locals,
                                        minimum_smver_version, cache_modified, aborted>>
                    ELSE /\ Then(<<req>>)
                         /\ Raise
                         /\ abandoned' = TRUE
                         /\ UNCHANGED cache
    /\ UNCHANGED <<config, widget, bfa_cache, cache_file, bfa_cache_file, cache0, bfa_cache0, visits>>

\* lines 453-455: the refresh is recorded
StableRefreshed(folder, modified_date) == [folder EXCEPT !.modified_date = modified_date]

\* lines 342-343, then lines 453-460 after the last link of a refresh and the end
\* of line 462 otherwise: the crawl ends and releases its folder page (a page of a
\* crawl left before stays unreleased)
StableFolderDone ==
    /\ pc = "stable_links"
    /\ links = <<>>
    /\ LET e == releases[idx]
       IN  IF mode = "stale"
           THEN /\ cache' = [cache EXCEPT ![e.ver] = StableRefreshed(@, e.date)]
                /\ cache_modified' = TRUE
                /\ Then(StableServed(cache'[e.ver]))
           ELSE /\ Then(<<>>)
                /\ UNCHANGED <<cache, cache_modified>>
    /\ held' = IF abandoned THEN held ELSE Released(held, "folder")
    /\ idx' = idx + 1
    /\ pc' = "stable_release"
    /\ UNCHANGED <<config, widget, bfa_cache, cache_file, bfa_cache_file, scrapers, releases,
                   minimum_smver_version, links, mode, response, other_locals, cache0,
                   bfa_cache0, visits, abandoned, aborted>>

\* a cache file written at the end of every pass
AlwaysSaves(modified) == TRUE

\* lines 464-467: whether the cache file is written when the loop has ended
StableSaves(modified) == modified

\* lines 464-470: the end of the loop
StableFinish ==
    /\ pc = "stable_release"
    /\ idx > Len(releases)
    /\ IF StableSaves(cache_modified)
       THEN /\ cache_file' = <<ToDict(cache)>>
            /\ Then(<<Write("stable")>>)
       ELSE /\ Then(<<>>)
            /\ UNCHANGED cache_file
    /\ held' = Released(held, "index")
    /\ Exhausted
    /\ UNCHANGED <<config, widget, cache, bfa_cache, bfa_cache_file, response, cache0, bfa_cache0,
                   visits, abandoned>>


(***************************************************************************)
(* scrape_automated_releases                                               *)
(***************************************************************************)
\* Scraper.json_platform
JsonPlatform(plat) ==
    CASE plat = "Windows" -> "windows"
      [] plat = "Linux" -> "linux"
      [] plat = "macOS" -> "darwin"
      [] OTHER -> plat

\* str.lower() on the architecture names considered
Lower(a) ==
    CASE a = "X64" -> "x64"
      [] a = "ARM64" -> "arm64"
      [] OTHER -> a

\* an entry of a builder.blender.org document; patch, release_cycle and branch are
\* <<>> for null and <<text>> otherwise
BuilderEntry(plat, arch, file_name, patch, release_cycle, branch) ==
    [platform |-> plat, architecture |-> arch, file_name |-> file_name, file_mtime |-> 1,
     version |-> "4.2.0", hash |-> "0f5a6bd2c1e4", url |-> <<"builder", file_name>>,
     patch |-> patch, release_cycle |-> release_cycle, branch |-> branch]

\* the documents considered: none, one with a build of every platform, one with the
\* architecture spelled as the host spells it or as amd64
BuilderDocuments ==
    { <<>>,
      << BuilderEntry("linux", "x86_64", "blender-4.2.0-linux.x86_64-release.tar.xz",
                      <<>>, <<"alpha">>, <<"main">>),
         BuilderEntry("linux", "x86_64", "blender-4.2.0-linux.x86_64-release.tar.xz.sha256",
                      <<>>, <<"alpha">>, <<"main">>),
         BuilderEntry("darwin", "arm64", "blender-4.2.0-darwin.arm64-release.dmg",
                      <<"PR1">>, <<"beta">>, <<"npr">>),
         BuilderEntry("darwin", "x86_64", "blender-4.2.0-darwin.x86_64-release.dmg",
                      <<"PR1">>, <<"beta">>, <<"npr">>),
         BuilderEntry("windows", "amd64", "blender-4.2.0-windows.amd64-release.zip",
                      <<>>, <<"alpha">>, <<"main">>) >>,
      << BuilderEntry("linux", "amd64", "blender-4.2.0-linux.amd64-release.tar.xz",
                      <<"PR2">>, <<>>, <<"">>),
         BuilderEntry("linux", "X64", "blender-4.2.0-linux.x86_64-release.tar.xz",
                      <<>>, <<>>, <<>>),
         BuilderEntry("darwin", "amd64", "blender-4.2.0-darwin.x86_64-release.dmg",
                      <<"PR2">>, <<>>, <<"">>) >> }

\* a response to the branch request: status 0, a body json.loads rejects, or a document
BuilderResponses ==
    { [status |-> 0, json |-> FALSE, data |-> <<>>],
      [status |-> 200, json |-> FALSE, data |-> <<>>] }
    \cup { [status |-> 200, json |-> TRUE, data |-> d] : d \in BuilderDocuments }

\* a text as the parts of a variant: the empty text adds nothing
Parts(text) == IF text = "" THEN <<>> ELSE <<text>>

\* lines 315-317: the entry after new_build_from_dict has run on it.  The function
\* writes "x86_64" over "amd64" in the entry itself, which is an element of the
\* parsed document, when the build is not architecture specific
Normalised(build, architecture_specific_build) ==
    IF ~architecture_specific_build /\ build.architecture = "amd64"
    THEN [build EXCEPT !.architecture = "x86_64"] ELSE build

\* a derivation in which the first rule that applies wins: the patch field ahead of
\* the branch name
PatchFirst(build, branch_type, architecture_specific_build) ==
    LET var == IF build.patch # <<>> /\ branch_type # "daily" THEN Parts(build.patch[1])
               ELSE IF build.release_cycle # <<>> /\ branch_type = "daily"
               THEN Parts(build.release_cycle[1])
               ELSE IF build.branch # <<>> /\ branch_type = "experimental"
               THEN Parts(build.branch[1]) ELSE <<>>
    IN  BuildInfo(build.url, <<build.version,
                               IF ~architecture_specific_build
                               THEN var \o <<" | ", IF build.architecture = "amd64"
                                                    THEN "x86_64" ELSE build.architecture>>
                               ELSE var>>,
                  build.hash, build.file_mtime, branch_type, "None")

\* lines 297-323 new_build_from_dict: the build returned; the entry is left as
\* Normalised gives it
NewBuildFromDict(build, branch_type, architecture_specific_build) ==
    LET var1 == IF build.patch # <<>> /\ branch_type # "daily"
                THEN Parts(build.patch[1]) ELSE <<>>
        var2 == IF build.release_cycle # <<>> /\ branch_type = "daily"
                THEN Parts(build.release_cycle[1]) ELSE var1
        var3 == IF build.branch # <<>> /\ build.branch # <<"">> /\ branch_type = "experimental"
                THEN Parts(build.branch[1]) ELSE var2
        var4 == IF ~architecture_specific_build
                THEN var3 \o <<" | ",
                               Normalised(build, architecture_specific_build).architecture>>
                ELSE var3
    IN  BuildInfo(build.url, <<build.version, var4>>, build.hash, build.file_mtime,
                  branch_type, "None")

\* an entry of this platform that passes the filter, of any architecture
AnyArchitecture(plat, arch, build) ==
    /\ build.platform = JsonPlatform(plat)
    /\ B3dLinkMatches(plat, build.file_name)

\* line 281-283: the entry is of this platform and architecture and passes the filter
NativeEntry(plat, arch, build) ==
    /\ build.platform = JsonPlatform(plat)
    /\ Lower(build.architecture) = Lower(arch)
    /\ B3dLinkMatches(plat, build.file_name)

\* line 294: the entry is of this platform and passes the filter
PlatformEntry(plat, build) ==
    /\ build.platform = JsonPlatform(plat)
    /\ B3dLinkMatches(plat, build.file_name)

RECURSIVE NativeBuilds(_, _, _, _)
\* lines 279-286: the builds of the first loop
NativeBuilds(plat, arch, document, branch_type) ==
    IF document = <<>> THEN <<>>
    ELSE (IF NativeEntry(plat, arch, Head(document))
          THEN <<NewBuildFromDict(Head(document), branch_type, TRUE)>> ELSE <<>>)
         \o NativeBuilds(plat, arch, Tail(document), branch_type)

RECURSIVE PlatformBuilds(_, _, _)
\* lines 293-295: the builds of the second loop
PlatformBuilds(plat, document, branch_type) ==
    IF document = <<>> THEN <<>>
    ELSE (IF PlatformEntry(plat, Head(document))
          THEN <<NewBuildFromDict(Head(document), branch_type, FALSE)>> ELSE <<>>)
         \o PlatformBuilds(plat, Tail(document), branch_type)

\* lines 279-295: the builds yielded for one document
AutomatedBuilds(plat, arch, document, branch_type) ==
    IF NativeBuilds(plat, arch, document, branch_type) # <<>>
    THEN NativeBuilds(plat, arch, document, branch_type)
    ELSE PlatformBuilds(plat, document, branch_type)

\* lines 279-295: the document when its builds have been yielded; the second loop
\* hands its entries to new_build_from_dict, which changes them in place
AutomatedData(plat, arch, document) ==
    IF \E i \in 1..Len(document) : NativeEntry(plat, arch, document[i]) THEN document
    ELSE [i \in 1..Len(document) |->
            IF PlatformEntry(plat, document[i]) THEN Normalised(document[i], FALSE)
            ELSE document[i]]

RECURSIVE PlatformEntries(_, _, _)
\* lines 293-294: the positions, from position i on, of the entries the second loop
\* yields a build for
PlatformEntries(plat, document, i) ==
    IF i > Len(document) THEN <<>>
    ELSE (IF PlatformEntry(plat, document[i]) THEN <<i>> ELSE <<>>)
         \o PlatformEntries(plat, document, i + 1)

\* lines 255-263: the branch types.  Whether a branch is fetched as "<type>/archive"
\* (get_show_<type>_archive_builds) only shapes the url of its request, and is drawn
\* there.
AutoStart ==
    /\ pc = "auto_start"
    /\ branches' = <<"daily", "experimental", "patch">>
    /\ pc' = "auto_branch"
    /\ Begin(<<>>)
    /\ UNCHANGED <<config, widget, cache, bfa_cache, cache_file, bfa_cache_file, scrapers,
                   stable_locals, entries, data, cache_modified, history, aborted>>

\* a branch whose request got no response is parsed like any other
NeverSkipped(r) == FALSE

\* lines 269-270: the branch is skipped
BranchSkipped(r) == r.status = 0

\* lines 265-286: the request of one branch of the loop, and the first loop over its
\* document, which changes nothing between its yields.  When the first loop yielded
\* nothing the second loop follows (288-295), one step for each of its yields.  The
\* response is not released (there is no release_conn in 265-295).
AutoBranch ==
    /\ pc = "auto_branch"
    /\ branches # <<>>
    /\ \E r \in BuilderResponses, archive \in BOOLEAN :
        LET b == [type |-> Head(branches)]
            req == Request("GET", <<"builder", b.type, archive>>)
            native == NativeBuilds(platform, architecture, r.data, b.type)
        IN  /\ response' = r.status
            /\ held' = IF r.status = 0 THEN held ELSE held \cup {"builder"}
            /\ IF BranchSkipped(r)
               THEN /\ Begin(<<req>>)
                    /\ branches' = Tail(branches)
                    /\ UNCHANGED <<pc, scrapers, releases, idx, minimum_smver_version, links,
                                   mode, entries, data, cache_modified, aborted>>
               ELSE IF ~r.json
               THEN /\ Begin(<<req>>)
                    /\ Raise
               ELSE IF native # <<>>
               THEN /\ Begin(<<req>> \o MapEmit(native))
                    /\ data' = r.data
                    /\ branches' = Tail(branches)
                    /\ UNCHANGED <<pc, scrapers, releases, idx, minimum_smver_version, links,
                                   mode, entries, cache_modified, aborted>>
               ELSE /\ Begin(<<req>>)
                    /\ data' = r.data
                    /\ links' = PlatformEntries(platform, r.data, 1)
                    /\ pc' = "auto_fallback"
                    /\ UNCHANGED <<scrapers, releases, idx, minimum_smver_version, mode,
                                   branches, entries, cache_modified, aborted>>
    /\ UNCHANGED <<config, widget, cache, bfa_cache, cache_file, bfa_cache_file, cache0,
                   bfa_cache0, visits, abandoned>>

\* lines 293-295: the second loop yields the build of its next entry, which
\* new_build_from_dict has changed in the document
AutoFallback ==
    /\ pc = "auto_fallback"
    /\ links # <<>>
    /\ Then(MapEmit(<<NewBuildFromDict(data[Head(links)], Head(branches), FALSE)>>))
    /\ data' = [data EXCEPT ![Head(links)] = Normalised(@, FALSE)]
    /\ links' = Tail(links)
    /\ UNCHANGED <<config, widget, cache, bfa_cache, cache_file, bfa_cache_file, pc, scrapers,
                   releases, idx, minimum_smver_version, mode, response, branches, entries,
                   cache_modified, history, aborted>>

\* the second loop has ended: the loop of line 265 goes on to the next branch
AutoBranchDone ==
    /\ pc = "auto_fallback"
    /\ links = <<>>
    /\ Then(<<>>)
    /\ branches' = Tail(branches)
    /\ pc' = "auto_branch"
    /\ UNCHANGED <<config, widget, cache, bfa_cache, cache_file, bfa_cache_file, scrapers,
                   stable_locals, entries, data, cache_modified, history, aborted>>

\* the loop of line 265 has ended
AutoFinish ==
    /\ pc = "auto_branch"
    /\ branches = <<>>
    /\ Then(<<>>)
    /\ Exhausted
    /\ UNCHANGED <<config, widget, cache, bfa_cache, cache_file, bfa_cache_file, response, history>>


(***************************************************************************)
(* scrape_bfa_releases                                                     *)
(***************************************************************************)
\* an entry of Client.ls(detail=True): ver is the version its name ends with, 0 when
\* the last word of the name is no version; modified 0 is a value that is no datetime
DavEntry(type, name, ver, modified) ==
    [type |-> type, name |-> name, ver |-> ver, modified |-> modified]

\* the listings of the share root: a file and a directory without a version, then
\* some of the directories "Bforartists 4.k.0", each with a modification date
BfaRoots ==
    UNION { { << DavEntry("file", "readme.txt", 0, 1), DavEntry("directory", "Archive", 0, 1) >>
              \o [i \in 1..Len(vs) |-> DavEntry("directory", "Bforartists", vs[i], f[i])]
              : f \in [1..Len(vs) -> Dates] }
            : vs \in SubSeqs([k \in 1..MaxBfaFolders |-> k]) }

RECURSIVE BfaVersionDirs(_)
\* lines 476-483: the entries the loop does not skip
BfaVersionDirs(listing) ==
    IF listing = <<>> THEN <<>>
    ELSE (IF Head(listing).type = "directory" /\ Head(listing).ver # 0
          THEN <<Head(listing)>> ELSE <<>>)
         \o BfaVersionDirs(Tail(listing))

\* the listings of a version directory considered
BfaPages ==
    { <<>>,
      << DavEntry("file", "Bforartists-4.1.0-Linux.tar.xz", 0, 1),
         DavEntry("file", "Bforartists-4.1.0-Windows.zip", 0, 1),
         DavEntry("file", "Bforartists-4.1.0-macOS.dmg", 0, 1),
         DavEntry("file", "readme.txt", 0, 1) >>,
      << DavEntry("file", "Bforartists-4.1.0-Linux.tar.xz", 0, 1),
         DavEntry("file", "Bforartists-4.1.1-Linux.tar.xz", 0, MaxFileDate),
         DavEntry("file", "Bforartists-4.1.1-macOS.dmg", 0, 0),
         DavEntry("file", "Bforartists-4.1.0-macOS.dmg", 0, MaxFileDate) >> }

\* self.bfa_package_file_name_regex: the names among those of BfaPages that
\* bfa_regex_filter of the platform matches (Linux: Bforartists-.+tar.xz$, macOS:
\* Bforartists-.+dmg$, Windows: Bforartists-.+Windows.+zip)
BfaPackageMatches(plat, name) ==
    CASE plat = "Linux" -> name \in { "Bforartists-4.1.0-Linux.tar.xz",
                                      "Bforartists-4.1.1-Linux.tar.xz" }
      [] plat = "macOS" -> name \in { "Bforartists-4.1.0-macOS.dmg",
                                      "Bforartists-4.1.1-macOS.dmg" }
      [] plat = "Windows" -> name = "Bforartists-4.1.0-Windows.zip"
      [] OTHER -> FALSE

\* lines 520-524 exe_name
ExeName(plat) ==
    CASE plat = "Windows" -> "bforartists.exe"
      [] plat = "Linux" -> "bforartists"
      [] plat = "macOS" -> "Bforartists/Bforartists.app/Contents/MacOS/Bforartists"
      [] OTHER -> "bforartists"

RECURSIVE BfaRelease(_, _, _)
\* lines 508-532 scrape_bfa_release: the builds of a listed version directory
BfaRelease(plat, semver, page) ==
    IF page = <<>> THEN <<>>
    ELSE (IF BfaPackageMatches(plat, Head(page).name) /\ Head(page).modified # 0
          THEN <<BuildInfo(<<"download", semver, Head(page).name>>, <<semver, <<>>>>,
                           "None", Head(page).modified, "bforartists", ExeName(plat))>>
          ELSE <<>>)
         \o BfaRelease(plat, semver, Tail(page))

\* the freshness test of the stable adapter used for the community share
BfaDiffers(folder, modified_date) == folder.modified_date # modified_date

\* line 492: the directory must be listed again
BfaStale(folder, modified_date) == folder.modified_date < modified_date

\* lines 494-495: a build of the listing is stored, then yielded
BfaStored(folder, build, modified_date) ==
    [folder EXCEPT !.assets = Append(@, build), !.under = Append(@, modified_date)]

\* line 497: the listing is recorded
BfaRefreshed(folder, modified_date) == [folder EXCEPT !.modified_date = modified_date]

\* lines 473-475: the listing of the share root
BfaRoot ==
    /\ pc = "bfa_root"
    /\ \/ /\ Begin(<<Request("PROPFIND", <<"webdav">>)>>)
          /\ response' = 0
          /\ Raise
          /\ UNCHANGED visits
       \/ \E listing \in BfaRoots :
            /\ Len(BfaVersionDirs(listing)) <= MaxVisits - visits
            /\ visits' = visits + Len(BfaVersionDirs(listing))
            /\ Begin(<<Request("PROPFIND", <<"webdav">>)>>)
            /\ response' = 207
            /\ entries' = BfaVersionDirs(listing) /\ idx' = 1
            /\ cache_modified' = FALSE
            /\ pc' = "bfa_directory"
            /\ UNCHANGED <<scrapers, releases, minimum_smver_version, links, mode, branches,
                           data, aborted>>
    /\ UNCHANGED <<config, widget, cache, bfa_cache, cache_file, bfa_cache_file, cache0, bfa_cache0,
                   held, abandoned>>

\* lines 485-493 and 499-501: the next version directory of the loop, up to the
\* listing of a stale directory (scrape_bfa_release lists it when the loop of line
\* 493 asks for its first build) or through the cached assets of a fresh one
BfaDirectory ==
    /\ pc = "bfa_directory"
    /\ idx <= Len(entries)
    /\ LET e == entries[idx]
           c1 == IF e.ver \in DOMAIN bfa_cache THEN bfa_cache ELSE NewBuild(bfa_cache, e.ver)
           req == Request("PROPFIND", <<"webdav", e.ver>>)
       IN  IF BfaStale(c1[e.ver], e.modified)
           THEN \/ /\ Begin(<<req>>)
                   /\ response' = 0
                   /\ bfa_cache' = c1
                   /\ Raise
                \/ \E page \in BfaPages :
                       /\ Begin(<<req>>)
                       /\ response' = 207
                       /\ bfa_cache' = c1
                       /\ links' = BfaRelease(platform, e.ver, page)
                       /\ pc' = "bfa_release"
                       /\ UNCHANGED <<scrapers, releases, idx, minimum_smver_version, mode,
                                      other_locals, cache_modified, aborted>>
           ELSE /\ Begin(MapEmit(c1[e.ver].assets))
                /\ bfa_cache' = c1
                /\ idx' = idx + 1
                /\ UNCHANGED <<pc, scrapers, releases, minimum_smver_version, links, mode,
                               response, other_locals, cache_modified, aborted>>
    /\ UNCHANGED <<config, widget, cache, cache_file, bfa_cache_file, history>>

\* lines 493-495: the next build of the listing is appended to the folder and yielded
BfaBuild ==
    /\ pc = "bfa_release"
    /\ links # <<>>
    /\ LET e == entries[idx]
       IN  bfa_cache' = [bfa_cache EXCEPT ![e.ver] = BfaStored(@, Head(links), e.modified)]
    /\ Then(MapEmit(<<Head(links)>>))
    /\ links' = Tail(links)
    /\ UNCHANGED <<config, widget, cache, cache_file, bfa_cache_file, pc, scrapers, releases,
                   idx, minimum_smver_version, mode, response, other_locals, cache_modified,
                   history, aborted>>

\* lines 497-498: the listing is exhausted
BfaDirectoryDone ==
    /\ pc = "bfa_release"
    /\ links = <<>>
    /\ LET e == entries[idx]
       IN  bfa_cache' = [bfa_cache EXCEPT ![e.ver] = BfaRefreshed(@, e.modified)]
    /\ cache_modified' = TRUE
    /\ idx' = idx + 1
    /\ pc' = "bfa_directory"
    /\ Then(<<>>)
    /\ UNCHANGED <<config, widget, cache, cache_file, bfa_cache_file, scrapers, releases,
                   minimum_smver_version, links, mode, response, other_locals, history,
                   aborted>>

\* lines 503-506: whether the cache file is written when the loop has ended
BfaSaves(modified) == modified

\* lines 180-181: the files at cache_path and bfa_cache_path
Files == [stable |-> cache_file, bfa |-> bfa_cache_file]

\* a community cache dumped to the path of the stable cache
SavedToStablePath(files, c) == [files EXCEPT !.stable = <<ToDict(c)>>]

\* lines 504-505: the files after json.dump(self.bfa_cache.to_dict(), f) on
\* self.bfa_cache_path
BfaSaved(files, c) == [files EXCEPT !.bfa = <<ToDict(c)>>]

\* lines 503-506: the end of the loop
BfaFinish ==
    /\ pc = "bfa_directory"
    /\ idx > Len(entries)
    /\ IF BfaSaves(cache_modified)
       THEN /\ cache_file' = BfaSaved(Files, bfa_cache).stable
            /\ bfa_cache_file' = BfaSaved(Files, bfa_cache).bfa
            /\ Then(<<Write("bfa")>>)
       ELSE /\ Then(<<>>)
            /\ UNCHANGED <<cache_file, bfa_cache_file>>
    /\ Exhausted
    /\ UNCHANGED <<config, widget, cache, bfa_cache, response, history>>

(***************************************************************************)
(* Scraper.run: get_api_data_manager comes before get_download_links.      *)
(***************************************************************************)
\* the bodies of a response to get_api_data: a text json.loads rejects; a JSON list;
\* a JSON object whose base64 content decodes to JSON
ApiBodies == { "text", "list", "json" }

\* the responses to a request of get_api_data: status 0 is no response (None)
ApiResponses ==
    { [status |-> 0, body |-> "text"] } \cup { [status |-> 200, body |-> b] : b \in ApiBodies }

\* lines 134-165 get_api_data: whether data were returned, whether the response was
\* obtained (it is never released), whether an exception left the function
\* (AttributeError of data.get on a list, line 151)
GetApiData(r) ==
    [data |-> r.status # 0 /\ r.body = "json",
     held |-> r.status # 0,
     raised |-> r.status # 0 /\ r.body = "list"]

\* the file an api request asks for
ApiRequest(file) == Request("GET", <<"api", file>>)

\* str.lower() on the platform names
LowerPlatform(plat) ==
    CASE plat = "Windows" -> "windows"
      [] plat = "Linux" -> "linux"
      [] plat = "macOS" -> "macos"
      [] OTHER -> plat

\* line 228: f"stable_builds_api_{self.platform.lower()}"
StableBuildsApi(plat) == <<"stable_builds_api", LowerPlatform(plat)>>

\* what is common to the two requests of get_api_data_manager
ApiIdle ==
    UNCHANGED <<config, widget, cache, bfa_cache, cache_file, bfa_cache_file, scrapers,
                releases, idx, minimum_smver_version, links, mode, other_locals,
                cache_modified, visits>>

\* lines 211-212 with 224-227: run() begins with get_api_data_manager, which asks for
\* blender_launcher_api; an exception of get_api_data ends run()
GetBlApiData ==
    /\ pc = "idle"
    /\ \E r \in ApiResponses :
        LET bl_api_data == GetApiData(r)
        IN  /\ trace' = <<ApiRequest(<<"blender_launcher_api">>)>>
            /\ held' = IF bl_api_data.held THEN {"api"} ELSE {}
            /\ abandoned' = FALSE
            /\ response' = r.status
            /\ aborted' = bl_api_data.raised
            /\ pc' = IF bl_api_data.raised THEN "idle" ELSE "api_data"
    /\ order' = <<>>
    /\ cache0' = cache /\ bfa_cache0' = bfa_cache
    /\ ApiIdle

\* lines 228-237: the request for the stable builds of the platform, and the end of
\* get_api_data_manager.  The functions of modules.bl_api_manager called at lines
\* 231-235 act on the files of their own module
GetApiDataManager ==
    /\ pc = "api_data"
    /\ \E r \in ApiResponses :
        LET blender_version_api_data == GetApiData(r)
        IN  /\ trace' = Append(trace, ApiRequest(StableBuildsApi(platform)))
            /\ held' = IF blender_version_api_data.held THEN held \cup {"api"} ELSE held
            /\ response' = r.status
            /\ aborted' = blender_version_api_data.raised
            /\ pc' = IF blender_version_api_data.raised THEN "idle" ELSE "download_links"
    /\ UNCHANGED <<order, cache0, bfa_cache0, abandoned>>
    /\ ApiIdle

(***************************************************************************)
(* Scraper.run: get_release_tag_manager follows get_download_links.        *)
(***************************************************************************)
\* an asset of a GitHub release: whether its name ends with .zip, and the platform
\* word its name holds, in lower case
TagAsset(zip, word) == [zip |-> zip, word |-> word]

\* a release of the GitHub document: tag_name is "v<n>.0.0" when valid and a text
\* Version.is_valid rejects otherwise
TagRelease(valid, n, assets) ==
    [valid |-> valid, n |-> n, has_assets |-> TRUE, assets |-> assets]

\* a release that has no "assets" key
TagBare(valid, n) == [valid |-> valid, n |-> n, has_assets |-> FALSE, assets |-> <<>>]

\* the releases considered
TagReleases ==
    { TagRelease(TRUE, 1, <<TagAsset(TRUE, "linux"), TagAsset(TRUE, "macos")>>),
      TagRelease(TRUE, 2, <<TagAsset(TRUE, "ubuntu"), TagAsset(FALSE, "macos")>>),
      TagRelease(FALSE, 2, <<TagAsset(TRUE, "linux"), TagAsset(TRUE, "macos")>>) }

\* the responses to the request of get_tag: none and, from releases/latest, a page
\* (a body json.loads rejects), tag being the last part of r.geturl(); from the
\* releases of the api, also documents of at most two releases, documents in which a
\* release has no assets, and a JSON object (GitHub's rate-limit message) in place
\* of the list
TagResponses(pre_release) ==
    { [status |-> 0, json |-> FALSE, list |-> FALSE, releases |-> <<>>, tag |-> 0],
      [status |-> 200, json |-> FALSE, list |-> FALSE, releases |-> <<>>, tag |-> 1] }
    \cup (IF pre_release
          THEN { [status |-> 200, json |-> TRUE, list |-> TRUE, releases |-> l, tag |-> 1] :
                   l \in {<<>>} \cup { <<a>> : a \in TagReleases }
                         \cup { <<a, b>> : a \in TagReleases, b \in TagReleases }
                         \cup { <<TagBare(TRUE, 1)>> }
                         \cup { <<a, TagBare(TRUE, 1)>> : a \in TagReleases } }
               \cup { [status |-> 200, json |-> TRUE, list |-> FALSE, releases |-> <<>>,
                       tag |-> 1] }
          ELSE {})

\* lines 92-102: the platform word looked for in the asset names
TagPlatform(plat, ubuntu) ==
    IF plat = "Linux" THEN (IF ubuntu THEN "ubuntu" ELSE "linux") ELSE "macos"

\* lines 104-113: the numbers of the valid tags of releases with a .zip asset of the
\* platform
ValidPreReleaseTags(word, parsed_data) ==
    { parsed_data[i].n : i \in { k \in 1..Len(parsed_data) :
          /\ parsed_data[k].valid
          /\ \E a \in 1..Len(parsed_data[k].assets) :
                parsed_data[k].assets[a].zip /\ parsed_data[k].assets[a].word = word } }

\* lines 104-111: the generator raises while the list of line 111 is built: the
\* keys of a JSON object are texts, which release["tag_name"] cannot index
\* (TypeError), and release["assets"] of a release without assets is a KeyError
TagRaises(r) ==
    \/ ~r.list
    \/ \E i \in 1..Len(r.releases) : ~r.releases[i].has_assets

\* get_tag: the tag returned (<<>> for None), whether the response was obtained and
\* not released when the function was left, and whether an exception left it
GetTag(pre_release, word, r) ==
    IF r.status = 0 THEN [tag |-> <<>>, held |-> FALSE, raised |-> FALSE]
    ELSE IF pre_release
    THEN (IF ~r.json THEN [tag |-> <<>>, held |-> TRUE, raised |-> FALSE]
          ELSE IF TagRaises(r) THEN [tag |-> <<>>, held |-> TRUE, raised |-> TRUE]
          ELSE IF ValidPreReleaseTags(word, r.releases) # {}
          THEN [tag |-> << CHOOSE n \in ValidPreReleaseTags(word, r.releases) :
                              \A m \in ValidPreReleaseTags(word, r.releases) : m <= n >>,
                held |-> TRUE, raised |-> FALSE]
          ELSE [tag |-> <<>>, held |-> FALSE, raised |-> FALSE])
    ELSE [tag |-> <<r.tag>>, held |-> FALSE, raised |-> FALSE]

\* self.new_bl_version.emit(latest_tag)
NewBlVersion(tag) == [type |-> "new_bl_version", tag |-> tag]

\* lines 216-222 with 62-131: get_release_tag_manager, when get_download_links has
\* returned; run() ends, by the exception when get_tag raised
GetReleaseTag ==
    /\ pc = "release_tag"
    /\ \E pre_release \in BOOLEAN :
       \E r \in TagResponses(pre_release),
          ubuntu \in (IF platform = "Linux" /\ pre_release THEN BOOLEAN ELSE {FALSE}) :
        LET got == GetTag(pre_release, TagPlatform(platform, ubuntu), r)
        IN  /\ trace' = <<Request("GET", <<"github", pre_release>>)>>
                         \o (IF got.tag # <<>> THEN <<NewBlVersion(got.tag[1])>> ELSE <<>>)
            /\ held' = IF got.held THEN held \cup {"tag"} ELSE held
            /\ response' = r.status
            /\ aborted' = got.raised
    /\ pc' = "idle"
    /\ UNCHANGED <<config, widget, cache, bfa_cache, cache_file, bfa_cache_file, scrapers, releases,
                   idx, minimum_smver_version, links, mode, other_locals, cache_modified,
                   order, cache0, bfa_cache0, visits, abandoned>>

Next ==
    \/ GetBlApiData
    \/ GetApiDataManager
    \/ StartRun
    \/ StableIndex
    \/ StableRelease
    \/ StablePlainIndex
    \/ StableProbe
    \/ StableFolderDone
    \/ StableFinish
    \/ AutoStart
    \/ AutoBranch
    \/ AutoFallback
    \/ AutoBranchDone
    \/ AutoFinish
    \/ BfaRoot
    \/ BfaDirectory
    \/ BfaBuild
    \/ BfaDirectoryDone
    \/ BfaFinish
    \/ GetReleaseTag

Spec == Init /\ [][Next]_vars

(***************************************************************************)
(* The cache module by itself: Scraper.__init__ loads the two caches from  *)
(* files in any state, then new_build is called on the stable cache.       *)
(***************************************************************************)
\* a record as a cache holds it
SampleBuild(ver, name) ==
    BuildInfo(<<"release", ver, name>>, <<"4.1.0", <<>>>>, BuildHash(name), MaxFileDate,
              "stable", "None")

\* a folder with the assets named, scraped under date d
SampleFolder(ver, names, d) ==
    [assets |-> [i \in 1..Len(names) |-> SampleBuild(ver, names[i])],
     modified_date |-> d,
     under |-> [i \in 1..Len(names) |-> d]]

\* the caches whose files are considered
SampleCaches ==
    { EmptyCache,
      [v \in {1} |-> SampleFolder(1, <<"blender-4.1.0-linux-x64.tar.xz",
                                       "blender-4.1.0-macos-arm64.dmg">>, MaxDate)],
      [v \in {1} |-> SampleFolder(1, <<"blender-4.1.0-macos-arm64.dmg",
                                       "blender-4.1.0-linux-x64.tar.xz">>, 1)],
      [v \in {1, MaxFolders} |->
          IF v = 1 THEN SampleFolder(1, <<"blender-4.1.0-linux-x64.tar.xz">>, 1)
          ELSE SampleFolder(v, <<>>, EPOCH)] }

\* the documents of files that no cache has written: no JSON, no UTF-8 text, a JSON
\* list, a dict without "folders", folders lacking a key, a date that is no ISO date,
\* a key that is no version, an asset without "blinfo"
BrokenDocuments ==
    { [text |-> "not json"],
      [bytes |-> "not utf-8"],
      [list |-> <<>>],
      [other |-> <<>>],
      [folders |-> { << <<"str", 1>>, [modified_date |-> <<"iso", 1>>] >> }],
      [folders |-> { << <<"str", 1>>, [assets |-> <<>>] >> }],
      [folders |-> { << <<"str", 1>>, [assets |-> <<>>, modified_date |-> <<"text", 1>>] >> }],
      [folders |-> { << <<"text", 0>>, [assets |-> <<>>, modified_date |-> <<"iso", 1>>] >> }],
      [folders |-> { << <<"str", 1>>,
                        [assets |-> << << <<"release", 1, "blender-4.1.0.md5">>,
                                          [file_version |-> "1.0"] >> >>,
                         modified_date |-> <<"iso", 1>>] >> }] }

\* the states of a cache file: absent, broken, written by to_dict
CacheFiles ==
    { <<>> } \cup { <<d>> : d \in BrokenDocuments } \cup { <<ToDict(c)>> : c \in SampleCaches }

\* a call of the cache module with its arguments and what it returned
Call(name, args, result) == [type |-> "call", name |-> name, args |-> args, result |-> result]

InitCache ==
    /\ \E h \in Hosts : platform = h[1] /\ architecture = h[2]
    /\ scrape_stable = TRUE /\ scrape_automated = TRUE /\ scrape_bfa = TRUE
    /\ cache_file \in CacheFiles /\ bfa_cache_file \in CacheFiles
    /\ cache = EmptyCache /\ bfa_cache = EmptyCache
    /\ pc = "load_stable" /\ scrapers = <<>>
    /\ releases = <<>> /\ idx = 0 /\ minimum_smver_version = 0
    /\ links = <<>> /\ mode = "" /\ cache_modified = FALSE /\ response = 0
    /\ branches = <<>> /\ entries = <<>> /\ data = <<>>
    /\ trace = <<>> /\ order = <<>>
    /\ cache0 = EmptyCache /\ bfa_cache0 = EmptyCache
    /\ visits = 0 /\ held = {} /\ abandoned = FALSE /\ aborted = FALSE
    /\ NoWidget

\* scraper.py line 183: self.cache = ScraperCache.from_file_or_default(self.cache_path)
LoadStable ==
    /\ pc = "load_stable"
    /\ LET got == FromFileOrDefault(cache_file)
       IN  /\ trace' = <<Call("from_file_or_default", cache_file, got)>>
           /\ IF got.kind = "raise"
              THEN pc' = "crashed" /\ aborted' = TRUE /\ UNCHANGED cache
              ELSE pc' = "load_bfa" /\ cache' = got.cache /\ UNCHANGED aborted
    /\ UNCHANGED <<config, widget, bfa_cache, cache_file, bfa_cache_file, scrapers, stable_locals,
                   other_locals, cache_modified, order, history>>

\* scraper.py line 184: self.bfa_cache = ScraperCache.from_file_or_default(...)
LoadBfa ==
    /\ pc = "load_bfa"
    /\ LET got == FromFileOrDefault(bfa_cache_file)
       IN  /\ trace' = <<Call("from_file_or_default", bfa_cache_file, got)>>
           /\ IF got.kind = "raise"
              THEN pc' = "crashed" /\ aborted' = TRUE /\ UNCHANGED bfa_cache
              ELSE pc' = "idle" /\ bfa_cache' = got.cache /\ UNCHANGED aborted
    /\ UNCHANGED <<config, widget, cache, cache_file, bfa_cache_file, scrapers, stable_locals,
                   other_locals, cache_modified, order, history>>

\* self.cache.new_build(ver, dt) for a version the cache does not hold (line 441-443
\* calls it without dt)
NewEntry ==
    /\ pc = "idle"
    /\ \E ver \in (1..MaxFolders) \ DOMAIN cache, dt \in {<<>>} \cup { <<d>> : d \in Dates } :
        /\ cache' = NewBuildAt(cache, ver, dt)
        /\ trace' = <<Call("new_build", <<ver, dt>>, NewFolder(dt))>>
    /\ UNCHANGED <<config, widget, bfa_cache, cache_file, bfa_cache_file, pc, scrapers, stable_locals,
                   other_locals, cache_modified, order, history, aborted>>

NextCache == LoadStable \/ LoadBfa \/ NewEntry

CacheSpec == InitCache /\ [][NextCache]_vars

(***************************************************************************)
(* new_build_from_dict on the entries of one-entry documents: every        *)
(* combination of branch type, patch, release_cycle and branch (null, empty *)
(* or a name), of an architecture that is or is not the host's.             *)
(***************************************************************************)
\* a file name of the platform that the filter matches
PlatformFile(plat) ==
    IF plat = "Linux" THEN "blender-4.2.0-linux.x86_64-release.tar.xz"
    ELSE "blender-4.2.0-darwin.arm64-release.dmg"

\* the entries considered for a platform
VariantEntries(plat) ==
    { BuilderEntry(JsonPlatform(plat), arch, PlatformFile(plat), patch, release_cycle, branch) :
        arch \in {"X64", "amd64", "arm64"},
        patch \in {<<>>, <<"PR1">>},
        release_cycle \in {<<>>, <<"alpha">>},
        branch \in {<<>>, <<"">>, <<"main">>} }

\* line 272 has run in a run without the stable source: the requests of the
\* branches before got no response, the response of the branch requested is held
\* (it is never released) and data is its parsed document
InitVariant ==
    /\ \E h \in Hosts : platform = h[1] /\ architecture = h[2]
    /\ scrape_stable = FALSE /\ scrape_automated = TRUE /\ scrape_bfa \in BOOLEAN
    /\ cache_file = <<ToDict(EmptyCache)>> /\ bfa_cache_file = <<ToDict(EmptyCache)>>
    /\ cache = EmptyCache /\ bfa_cache = EmptyCache
    /\ pc = "auto_parse"
    /\ scrapers = Scrapers(scrape_stable, scrape_automated, scrape_bfa)
    /\ releases = <<>> /\ idx = 0 /\ minimum_smver_version = 0
    /\ links = <<>> /\ mode = "" /\ cache_modified = FALSE /\ response = 200
    /\ branches \in { <<"daily", "experimental", "patch">>, <<"experimental", "patch">>,
                      <<"patch">> }
    /\ entries = <<>>
    /\ \E e \in VariantEntries(platform) : data = <<e>>
    /\ \E archive \in BOOLEAN :
        trace = <<Request("GET", <<"builder", Head(branches), archive>>)>>
    /\ order = Sources(<<>>, trace)
    /\ cache0 = EmptyCache /\ bfa_cache0 = EmptyCache
    /\ visits = 0 /\ held = {"builder"} /\ abandoned = FALSE /\ aborted = FALSE
    /\ NoWidget

\* lines 273-295: the build of the one entry of the document is yielded, and the
\* entry is as new_build_from_dict left it
AutoParse ==
    /\ pc = "auto_parse"
    /\ Then(MapEmit(AutomatedBuilds(platform, architecture, data, Head(branches))))
    /\ data' = AutomatedData(platform, architecture, data)
    /\ pc' = "auto_parsed"
    /\ UNCHANGED <<config, widget, cache, bfa_cache, cache_file, bfa_cache_file, scrapers,
                   stable_locals, branches, entries, cache_modified, history, aborted>>

NextVariant == AutoParse

VariantSpec == InitVariant /\ [][NextVariant]_vars

(***************************************************************************)
(* widgets/folder_select.py: FolderSelector.  A path is the sequence of    *)
(* its parts, and the text of the line edit is the path it spells; the     *)
(* empty text spells the directory the program runs in.                    *)
(***************************************************************************)
\* get_cwd()
Cwd == <<"/", "cwd">>

\* the folders the file dialog, the caller and the constructor hand in
Folders == { <<"/", "lib">>, <<"/", "cwd", "lib">>, <<"/", "cwd", "old", "lib">>, <<"lib">> }

\* folder.is_relative_to(other)
IsRelativeTo(folder, other) ==
    Len(other) <= Len(folder) /\ SubSeq(folder, 1, Len(other)) = other

\* folder.relative_to(other)
RelativeTo(folder, other) == SubSeq(folder, Len(other) + 1, Len(folder))

\* the signals of the widget
Signal(name, value) == [type |-> "signal", name |-> name, value |-> value]

\* what a write-permission check meets: the temporary file is written and removed;
\* opening, writing or removing it fails with an OSError; Path.exists of line 99 or
\* 101 fails with an OSError pathlib does not swallow (EACCES on a parent)
CheckOutcomes == { "writable", "unwritable", "raise" }

\* an exception left check_write_permission() on the text `text`
CheckRaised(text) == [type |-> "raise", name |-> "check_write_permission", args |-> text]

\* check_write_permission() on the text `text` with `valid` stored: the validity
\* stored afterwards, the value returned, whether an exception left the function
\* (before line 115), and the events
CheckWritePermission(valid, text, outcome) ==
    IF outcome = "raise"
    THEN [is_valid |-> valid, result |-> FALSE, raised |-> TRUE,
          events |-> << CheckRaised(text) >>]
    ELSE LET can_write == outcome = "writable"
         IN  [is_valid |-> can_write, result |-> can_write, raised |-> FALSE,
              events |-> << Call("check_write_permission", text, can_write) >>
                         \o (IF valid # can_write
                             THEN << Signal("validity_changed", can_write) >> ELSE <<>>)]

\* the value validity_changed emitted last, after the events evs
RECURSIVE LastEmitted(_, _)
LastEmitted(last, evs) ==
    IF evs = <<>> THEN last
    ELSE LET e == evs[Len(evs)]
         IN  IF e.type = "signal" /\ e.name = "validity_changed" THEN <<e.value>>
             ELSE LastEmitted(last, SubSeq(evs, 1, Len(evs) - 1))

\* what becomes of an exception raised in the slot of textChanged: PyQt5 hands it to
\* sys.excepthook; with a hook installed it is reported and setText returns, with
\* the default hook PyQt5 ends the process (qFatal)
SlotRaises == { "reported", "fatal" }

\* line_edit.setText(text): textChanged, connected to check_write_permission,
\* fires when the text changes
SetText(valid, old, text, outcome) ==
    IF text # old THEN CheckWritePermission(valid, text, outcome)
    ELSE [is_valid |-> valid, result |-> valid, raised |-> FALSE, events |-> <<>>]

\* lines 67-70 and 91-94: set the text, remember the folder, check, emit; an
\* exception of the check of line 69 or 93 ends the call.  in_slot: the call runs
\* in a slot (prompt_folder is the slot of button.clicked, line 50; the lambdas of
\* lines 84-85 are the slots of the dialog's signals), so that the exception
\* leaves a slot as well.  When the process is ended, in setText or by the
\* exception that leaves the slot, there is no widget any more
ShowFolder(folder, signalled, slot, checked, in_slot) ==
    LET set == SetText(is_valid, line_edit, folder, signalled)
        left == set.raised /\ slot = "fatal"
        chk == IF left THEN [is_valid |-> set.is_valid, result |-> FALSE, raised |-> TRUE,
                             events |-> <<>>]
               ELSE IF check_perms THEN CheckWritePermission(set.is_valid, folder, checked)
               ELSE [is_valid |-> set.is_valid, result |-> TRUE, raised |-> FALSE,
                     events |-> <<>>]
        evs == set.events \o chk.events
               \o (IF ~chk.raised /\ chk.result
                   THEN << Signal("folder_changed", folder) >> ELSE <<>>)
    IN  /\ line_edit' = folder
        /\ default_choose_dir' = IF left THEN default_choose_dir ELSE folder
        /\ is_valid' = chk.is_valid
        /\ trace' = evs
        /\ last_emitted' = LastEmitted(last_emitted, evs)
        /\ pc' = IF left \/ (in_slot /\ chk.raised /\ slot = "fatal") THEN "no_widget" ELSE pc

\* set_folder(folder, relative) with relative in {"None", "True", "False"};
\* open is the dialog awaiting an answer when the call shows none
set_folder(folder, relative, signalled, slot, checked, open, in_slot) ==
    IF IsRelativeTo(folder, Cwd) /\ relative = "None"
    THEN /\ dlg' = <<folder>>
         /\ trace' = <<>>
         /\ UNCHANGED <<line_edit, default_choose_dir, is_valid, last_emitted, pc>>
    ELSE /\ ShowFolder(IF IsRelativeTo(folder, Cwd) /\ relative = "True"
                       THEN RelativeTo(folder, Cwd) ELSE folder, signalled, slot, checked,
                       in_slot)
         /\ dlg' = open

\* the state after FolderSelector(launcher, default_folder=..., check_relatives=...,
\* check_perms=...): the text is set before textChanged is connected, and one
\* check runs on a stored validity of False; when that check raises the
\* constructor raises and there is no widget
InitWidget ==
    /\ \E h \in Hosts : platform = h[1] /\ architecture = h[2]
    /\ scrape_stable = TRUE /\ scrape_automated = TRUE /\ scrape_bfa = TRUE
    /\ cache_file = <<ToDict(EmptyCache)>> /\ bfa_cache_file = <<ToDict(EmptyCache)>>
    /\ cache = EmptyCache /\ bfa_cache = EmptyCache
    /\ scrapers = <<>>
    /\ releases = <<>> /\ idx = 0 /\ minimum_smver_version = 0
    /\ links = <<>> /\ mode = "" /\ cache_modified = FALSE /\ response = 0
    /\ branches = <<>> /\ entries = <<>> /\ data = <<>>
    /\ order = <<>>
    /\ cache0 = EmptyCache /\ bfa_cache0 = EmptyCache
    /\ visits = 0 /\ held = {} /\ abandoned = FALSE /\ aborted = FALSE
    /\ check_relatives \in BOOLEAN /\ check_perms \in BOOLEAN
    /\ line_edit \in {<<>>} \cup Folders
    /\ default_choose_dir = line_edit
    /\ dlg = <<>>
    /\ \E outcome \in CheckOutcomes :
        LET chk == CheckWritePermission(FALSE, line_edit, outcome)
        IN  /\ is_valid = chk.is_valid
            /\ trace = chk.events
            /\ last_emitted = LastEmitted(<<>>, chk.events)
            /\ pc = IF chk.raised THEN "no_widget" ELSE "widget"

WidgetIdle ==
    UNCHANGED <<config, check_relatives, check_perms, cache, bfa_cache, cache_file,
                bfa_cache_file, scrapers, releases, idx, minimum_smver_version, links,
                mode, response, branches, entries, data, cache_modified, order, history,
                aborted>>

\* prompt_folder(), the slot of button.clicked: the button was clicked and the
\* file dialog returned new_library_folder (the empty text when it was dismissed)
PromptFolder ==
    /\ pc = "widget"
    /\ \E new_library_folder \in {<<>>} \cup Folders, signalled \in CheckOutcomes,
          slot \in SlotRaises, checked \in CheckOutcomes :
        IF new_library_folder = <<>>
        THEN /\ trace' = <<>>
             /\ UNCHANGED <<line_edit, default_choose_dir, is_valid, last_emitted, dlg, pc>>
        ELSE IF check_relatives
        THEN set_folder(new_library_folder, "None", signalled, slot, checked, dlg, TRUE)
        ELSE ShowFolder(new_library_folder, signalled, slot, checked, TRUE)
             /\ UNCHANGED dlg
    /\ WidgetIdle

\* set_folder(folder) called by the owner of the widget: an exception of the
\* check of line 93 goes to the caller
SetFolder ==
    /\ pc = "widget"
    /\ \E folder \in Folders, relative \in {"None", "True", "False"},
          signalled \in CheckOutcomes, slot \in SlotRaises, checked \in CheckOutcomes :
        set_folder(folder, relative, signalled, slot, checked, dlg, FALSE)
    /\ WidgetIdle

\* lines 84-85: the dialog was accepted or cancelled; the lambda that calls
\* set_folder is the slot of the signal
DialogAnswered ==
    /\ pc = "widget" /\ dlg # <<>>
    /\ \E relative \in {"True", "False"}, signalled \in CheckOutcomes,
          slot \in SlotRaises, checked \in CheckOutcomes :
        set_folder(dlg[1], relative, signalled, slot, checked, <<>>, TRUE)
    /\ WidgetIdle

\* check_write_permission() called by the owner of the widget, on the text shown
CheckCalled ==
    /\ pc = "widget"
    /\ \E outcome \in CheckOutcomes :
        LET chk == CheckWritePermission(is_valid, line_edit, outcome)
        IN  /\ is_valid' = chk.is_valid
            /\ trace' = chk.events
            /\ last_emitted' = LastEmitted(last_emitted, chk.events)
    /\ UNCHANGED <<line_edit, default_choose_dir, dlg, pc>>
    /\ WidgetIdle

NextWidget == PromptFolder \/ SetFolder \/ DialogAnswered \/ CheckCalled

WidgetSpec == InitWidget /\ [][NextWidget]_vars


(***************************************************************************)
(* Properties.                                                             *)
(***************************************************************************)
RECURSIVE Emitted(_)
\* the builds of the links events of evs, in order
Emitted(evs) ==
    IF evs = <<>> THEN <<>>
    ELSE (IF Head(evs).type = "links" THEN <<Head(evs).build>> ELSE <<>>)
         \o Emitted(Tail(evs))

\* the stable folder the thread handles (its links are probed) or has just handled
Current == IF pc = "stable_links" THEN releases[idx] ELSE releases[idx - 1]

\* the refresh of a stable folder has just ended (lines 447-460 have run)
StableRefreshEnded == pc = "stable_release" /\ mode = "stale" /\ idx > 1

\* the listing of a stale community directory has just ended (lines 492-498 have run)
BfaRefreshEnded ==
    /\ pc = "bfa_directory" /\ idx > 1
    /\ trace # <<>> /\ trace[1].type = "request"

\* C1: when the refresh of a stable folder has ended, the folder has produced exactly
\* one links event per record the crawl resolved (the records now stored in its
\* snapshot): N resolved links give N events, none twice.
C1_OneEventPerRecord ==
    StableRefreshEnded => Emitted(trace) = cache[Current.ver].assets

\* C2: when the listing of a stale community directory has ended, the snapshot holds
\* exactly the records this listing produced and none it held before.
C2_BfaRefreshReplaces ==
    BfaRefreshEnded => bfa_cache[entries[idx - 1].ver].assets = Emitted(trace)

\* every asset of every snapshot of c was scraped under the snapshot's modified_date
Consistent(c) ==
    \A v \in DOMAIN c :
        \A i \in 1..Len(c[v].under) : c[v].under[i] = c[v].modified_date

\* C3: in every reachable state, no snapshot of either cache holds a record scraped
\* under a modification date other than its stored modified_date.
C3_SnapshotConsistent == Consistent(cache) /\ Consistent(bfa_cache)

RECURSIVE Probed(_)
\* the builds of the links events of evs that directly follow the HEAD request of
\* their own link, in order
Probed(evs) ==
    IF Len(evs) < 2 THEN <<>>
    ELSE (IF /\ evs[1].type = "request" /\ evs[1].method = "HEAD"
             /\ evs[2].type = "links" /\ evs[2].build.link = evs[1].url
          THEN <<evs[2].build>> ELSE <<>>)
         \o Probed(Tail(evs))

\* the loop of scrap_stable_releases stands at a folder at or above the floor whose
\* date sibling parses
AtDatedFolder ==
    /\ pc = "stable_release" /\ idx <= Len(releases)
    /\ releases[idx].ver >= minimum_smver_version
    /\ releases[idx].kind = "date"

\* C4: the step that handles a cached stable folder whose observed date equals the
\* cached modified_date emits exactly the cached assets in cached order, issues no
\* request, changes neither the cache nor the dirty flag, and goes on to the next
\* folder of the index.
C4_StableIdempotence ==
    [][ (/\ AtDatedFolder
         /\ releases[idx].ver \in DOMAIN cache
         /\ cache[releases[idx].ver].modified_date = releases[idx].date)
        => /\ trace' = [i \in 1..Len(cache[releases[idx].ver].assets) |->
                            Emit(cache[releases[idx].ver].assets[i])]
           /\ cache' = cache /\ cache_modified' = cache_modified
           /\ pc' = "stable_release" /\ idx' = idx + 1 ]_vars

\* a folder cached with two records by an earlier run has been served again
C4_Witness ==
    /\ pc = "stable_release" /\ mode = "fresh" /\ idx > 1
    /\ Len(trace) = 2 /\ Emitted(trace) = cache[Current.ver].assets
    /\ cache = cache0

\* C5: a stable folder whose observed date differs from the cached one is cleared
\* before its folder request, and while and after it is crawled its snapshot holds
\* exactly the records this crawl resolved, each scraped under the observed date;
\* when the crawl has ended the snapshot carries the observed date.
C5_StableRefreshReplaces ==
    /\ [][ (/\ AtDatedFolder
            /\ releases[idx].ver \in DOMAIN cache
            /\ cache[releases[idx].ver].modified_date # releases[idx].date)
           => /\ cache'[releases[idx].ver].assets = <<>>
              /\ trace' = <<Request("GET", <<"release", releases[idx].ver>>)>>
              /\ mode' = "stale" ]_vars
    /\ [](mode = "stale" =>
            /\ cache[Current.ver].assets = Probed(trace)
            /\ \A i \in 1..Len(cache[Current.ver].under) :
                    cache[Current.ver].under[i] = Current.date
            /\ Len(cache[Current.ver].under) = Len(cache[Current.ver].assets)
            /\ StableRefreshEnded => cache[Current.ver].modified_date = Current.date)

\* a folder cached with records under a newer date has been crawled again under an
\* older one and holds a record of the new crawl
C5_Witness ==
    /\ StableRefreshEnded
    /\ Current.ver \in DOMAIN cache0
    /\ cache0[Current.ver].assets # <<>>
    /\ cache0[Current.ver].modified_date > Current.date
    /\ Len(cache[Current.ver].assets) = 1

\* C6: the step that handles a cached community directory whose reported time is
\* equal to or older than the cached modified_date emits exactly the cached assets,
\* lists nothing, changes neither the cache nor the dirty flag; a step that lists a
\* directory handles one whose reported time is strictly newer than the cached date
\* (EPOCH for a version not cached).
C6_BfaStrictlyNewer ==
    [][ /\ (/\ pc = "bfa_directory" /\ idx <= Len(entries)
            /\ entries[idx].ver \in DOMAIN bfa_cache
            /\ entries[idx].modified <= bfa_cache[entries[idx].ver].modified_date)
           => /\ trace' = [i \in 1..Len(bfa_cache[entries[idx].ver].assets) |->
                               Emit(bfa_cache[entries[idx].ver].assets[i])]
              /\ bfa_cache' = bfa_cache /\ cache_modified' = cache_modified
              /\ idx' = idx + 1
        /\ (/\ pc = "bfa_directory" /\ idx <= Len(entries)
            /\ trace' # <<>> /\ trace'[1].type = "request")
           => entries[idx].modified >
                 (IF entries[idx].ver \in DOMAIN bfa_cache
                  THEN bfa_cache[entries[idx].ver].modified_date ELSE EPOCH) ]_vars

\* a directory cached with a record under date 2 has been reported with date 1 and
\* served from the cache
C6_Witness ==
    /\ pc = "bfa_directory" /\ idx > 1
    /\ entries[idx - 1].modified < bfa_cache[entries[idx - 1].ver].modified_date
    /\ trace = [i \in 1..Len(trace) |-> Emit(bfa_cache[entries[idx - 1].ver].assets[i])]
    /\ Len(trace) >= 1
    /\ bfa_cache = bfa_cache0

\* the step appends the write of the cache file `file` to the events
Wrote(file) == trace' # trace /\ trace' # <<>> /\ trace'[Len(trace')] = Write(file)

\* the number of write events among evs
Writes(evs) == Cardinality({ i \in 1..Len(evs) : evs[i].type = "write" })

\* C7: a step writes the stable (community) cache file only when the loop of the
\* stable (community) adapter has ended; it writes the whole cache once, the cache
\* differs from the cache the run began with, the adapter's generator is exhausted by
\* the same step and no event of another adapter precedes the write; a pass that
\* ends with the cache it began with writes nothing.
C7_WriteOnceAfterPass ==
    [][ /\ (Wrote("stable") \/ cache_file' # cache_file)
           => /\ pc = "stable_release" /\ idx > Len(releases)
              /\ cache # cache0 /\ cache' = cache
              /\ cache_file' = <<ToDict(cache)>>
              /\ Wrote("stable") /\ Writes(trace') = 1
              /\ scrapers' = Tail(scrapers) /\ pc' = FirstPc(scrapers')
              /\ \A i \in 1..Len(trace') : SourceOf(trace'[i]) = "stable"
        /\ (Wrote("bfa") \/ bfa_cache_file' # bfa_cache_file)
           => /\ pc = "bfa_directory" /\ idx > Len(entries)
              /\ bfa_cache # bfa_cache0 /\ bfa_cache' = bfa_cache
              /\ bfa_cache_file' = <<ToDict(bfa_cache)>>
              /\ Wrote("bfa") /\ Writes(trace') = 1
              /\ scrapers' = Tail(scrapers) /\ pc' = FirstPc(scrapers')
              /\ \A i \in 1..Len(trace') : SourceOf(trace'[i]) = "bfa"
        /\ (pc = "stable_release" /\ idx > Len(releases) /\ cache = cache0)
           => (~Wrote("stable") /\ cache_file' = cache_file)
        /\ (pc = "bfa_directory" /\ idx > Len(entries) /\ bfa_cache = bfa_cache0)
           => (~Wrote("bfa") /\ bfa_cache_file' = bfa_cache_file) ]_vars

\* the stable pass has refreshed a folder and written the cache file, and the
\* automated adapter is about to start
C7_Witness ==
    /\ pc = "auto_start"
    /\ trace # <<>> /\ trace[Len(trace)] = Write("stable")
    /\ cache_file = <<ToDict(cache)>> /\ cache # cache0

\* the place of a source in the chain of get_download_links
Rank(s) == CASE s = "stable" -> 1 [] s = "automated" -> 2 [] OTHER -> 3

\* the setting that enables a source
EnabledSource(s) ==
    CASE s = "stable" -> scrape_stable
      [] s = "automated" -> scrape_automated
      [] OTHER -> scrape_bfa

\* C8: the sources of the events of a run (requests, records, cache writes) come
\* adapter by adapter in the order stable, automated, community without a return to
\* an earlier adapter, only enabled adapters contribute events, and no event belongs
\* to an adapter behind the one that is running.
C8_AdapterByAdapter ==
    /\ \A i, j \in 1..Len(order) : i < j => Rank(order[i]) < Rank(order[j])
    /\ \A i \in 1..Len(order) : EnabledSource(order[i])
    /\ scrapers # <<>> => \A i \in 1..Len(order) : Rank(order[i]) <= Rank(Head(scrapers))

\* a run with events of all three adapters has ended
C8_Witness == pc = "idle" /\ ~aborted /\ order = <<"stable", "automated", "bfa">>

\* the name of a probed link gives a build on this host (lines 363 and 385-392)
Resolves(href) ==
    /\ ParseBlenderVer(href) # <<>>
    /\ platform = "macOS" =>
          /\ architecture = "arm64" => HasArm64(href)
          /\ architecture = "x64" => HasX64(href)

\* C9: the step that probes a stable link with status 200 and a name that gives a
\* build appends the request and then the record's links event before any further
\* request; while a stale folder is crawled every record stored so far has been
\* emitted; when the listing of a stale community directory has ended every record
\* it added has been emitted.
C9_Streaming ==
    /\ [][ (pc = "stable_links" /\ links # <<>> /\ response' = 200 /\ Resolves(Head(links)))
           => /\ Len(trace') = Len(trace) + 2
              /\ SubSeq(trace', 1, Len(trace)) = trace
              /\ trace'[Len(trace) + 1] =
                     Request("HEAD", <<"release", releases[idx].ver, Head(links)>>)
              /\ trace'[Len(trace) + 2].type = "links"
              /\ trace'[Len(trace) + 2].build.link = trace'[Len(trace) + 1].url ]_vars
    /\ []((pc = "stable_links" /\ mode = "stale")
            => Emitted(trace) = cache[Current.ver].assets)
    /\ [](BfaRefreshEnded
            => bfa_cache[entries[idx - 1].ver].assets =
                  (IF entries[idx - 1].ver \in DOMAIN bfa_cache0
                   THEN bfa_cache0[entries[idx - 1].ver].assets ELSE <<>>)
                  \o Emitted(trace))

\* a record has been emitted while a further link of the folder is still to be probed
C9_Witness ==
    /\ pc = "stable_links" /\ links # <<>>
    /\ Emitted(trace) # <<>> /\ trace[Len(trace)].type = "links"

\* the events evs hold the error signal
ErrorIn(evs) == \E i \in 1..Len(evs) : evs[i] = StableError

\* C10: the index step emits stable_error exactly when a response arrived and the
\* loop over releases is not entered (no release anchor); no other step emits it.
\* While the events hold the error they are the index request and the one error, no
\* record, the cache is the one the run began with, no file was written, the run is
\* not aborted and the next enabled adapter is about to run.
C10_ListingExhausted ==
    /\ [][ /\ pc = "stable_index"
              => /\ ErrorIn(trace') <=> (response' # 0 /\ releases' = <<>>)
                 /\ releases' = <<>> <=> pc' # "stable_release"
                 /\ cache' = cache /\ cache_file' = cache_file
           /\ pc # "stable_index" => (~ErrorIn(trace') \/ trace' = trace) ]_vars
    /\ [](ErrorIn(trace)
            => /\ trace = <<Request("GET", <<"release">>), StableError>>
               /\ response # 0
               /\ cache = cache0 /\ ~aborted
               /\ scrapers = Scrapers(FALSE, scrape_automated, scrape_bfa)
               /\ pc = FirstPc(scrapers))

\* the index gave no release anchor, the error was emitted and the automated
\* adapter is about to run
C10_Witness == ErrorIn(trace) /\ pc = "auto_start" /\ response = 404

\* the last run was ended by an exception of the WebDAV client (client.ls raised)
DavFailure ==
    /\ trace # <<>>
    /\ trace[Len(trace)].type = "request" /\ trace[Len(trace)].method = "PROPFIND"
    /\ response = 0

\* the run was ended by get_api_data, before get_download_links
ApiFailure ==
    /\ trace # <<>>
    /\ trace[Len(trace)].type = "request" /\ trace[Len(trace)].url[1] = "api"

\* the run was ended by get_tag, after get_download_links
TagFailure ==
    /\ trace # <<>>
    /\ trace[Len(trace)].type = "request" /\ trace[Len(trace)].url[1] = "github"

\* C11: a run is never ended by a parse failure (malformed JSON of a branch document,
\* an unparseable folder date, a link name without a version): a run that was ended
\* by an exception was ended by a failure of the WebDAV client, or before its
\* adapters began, or after they ended.
C11_ParseFailuresAbsorbed == aborted => (DavFailure \/ ApiFailure \/ TagFailure)

\* C12: a request that gets no response skips its resource and nothing else.  Index:
\* only the request is recorded and the next enabled adapter runs.  Folder page: no
\* link is probed, no record is emitted, and the loop goes on to the next folder.
\* Link probe: only the request is recorded, the cache is unchanged and the next
\* link is probed.  Branch document: only the request is recorded and the loop goes on
\* to the next branch.  None of these steps ends the run.
C12_TransportFailuresAbsorbed ==
    [][ /\ (pc = "stable_index" /\ response' = 0)
           => /\ trace' = <<Request("GET", <<"release">>)>>
              /\ scrapers' = Tail(scrapers) /\ pc' = FirstPc(scrapers')
              /\ ~aborted' /\ cache' = cache /\ cache_file' = cache_file
        /\ (pc \in {"stable_release", "stable_plain"} /\ pc' = "stable_links" /\ response' = 0)
           => /\ links' = <<>>
              /\ Emitted(trace') = Emitted(trace) \/ Emitted(trace') = <<>>
              /\ trace'[Len(trace')] = Request("GET", <<"release", releases[idx].ver>>)
              /\ ~aborted' /\ idx' = idx
        /\ (pc = "stable_links" /\ links = <<>>)
           => /\ pc' = "stable_release" /\ idx' = idx + 1 /\ ~aborted'
              /\ trace' = trace \/ mode = "stale"
        /\ (pc = "stable_links" /\ links # <<>> /\ response' = 0)
           => /\ trace' = Append(trace, Request("HEAD", <<"release", releases[idx].ver,
                                                          Head(links)>>))
              /\ links' = Tail(links) /\ pc' = pc /\ idx' = idx
              /\ cache' = cache /\ ~aborted'
        /\ (pc = "auto_branch" /\ branches # <<>> /\ response' = 0)
           => /\ Len(trace') = 1 /\ trace'[1].type = "request"
              /\ branches' = Tail(branches) /\ pc' = pc /\ ~aborted' ]_vars

\* the probe of a link got no response and the next link of the folder is up
C12_Witness ==
    /\ pc = "stable_links" /\ links # <<>> /\ response = 0
    /\ trace[Len(trace)].type = "request" /\ trace[Len(trace)].method = "HEAD"

\* C13: loading a cache never raises, whatever the file is (absent, no JSON, JSON of
\* another structure), and a file that no cache has written loads as the empty cache.
C13_LoadNeverRaises ==
    /\ pc # "crashed"
    /\ (pc = "load_bfa" /\ cache_file \notin { <<ToDict(c)>> : c \in SampleCaches })
       => cache = EmptyCache

\* C14: the step that handles a folder below the floor records no request and no
\* record, leaves the cache and the dirty flag unchanged and goes on to the next
\* folder; a folder at or above the floor (every folder when the floor is 0) is not
\* passed over.
C14_MinimumVersionFloor ==
    [][ /\ (/\ pc = "stable_release" /\ idx <= Len(releases)
            /\ releases[idx].ver < minimum_smver_version)
           => /\ trace' = <<>>
              /\ cache' = cache /\ cache_modified' = cache_modified
              /\ cache_file' = cache_file
              /\ pc' = "stable_release" /\ idx' = idx + 1
        /\ (/\ pc = "stable_release" /\ idx <= Len(releases)
            /\ releases[idx].ver >= minimum_smver_version)
           => mode' # "below" ]_vars

\* a folder cached with records by an earlier run is below the floor of this run and
\* has been passed over
C14_Witness ==
    /\ pc = "stable_release" /\ mode = "below" /\ idx > 1
    /\ releases[idx - 1].ver \in DOMAIN cache
    /\ cache[releases[idx - 1].ver].assets # <<>>
    /\ trace = <<>>

\* C15: every HEAD request, every stable record emitted and every record stored in the
\* stable cache is of a link the filename filter of the platform matches.  The step
\* that probes a link issues exactly one request, for the first link left, and drops
\* that link from the links left; when the response is none or not 200 it records
\* the request alone and leaves the cache unchanged; when it emits or stores a record
\* the status was 200 and the record is of the probed link.
C15_FilteredAndResolved ==
    /\ [](/\ \A i \in 1..Len(trace) :
               /\ (trace[i].type = "request" /\ trace[i].method = "HEAD")
                  => B3dLinkMatches(platform, trace[i].url[3])
               /\ (trace[i].type = "links" /\ trace[i].build.branch = "stable")
                  => B3dLinkMatches(platform, trace[i].build.link[3])
          /\ \A v \in DOMAIN cache : \A i \in 1..Len(cache[v].assets) :
               B3dLinkMatches(platform, cache[v].assets[i].link[3]))
    /\ [][ (pc = "stable_links" /\ links # <<>>)
           => LET ver == releases[idx].ver
                  req == Request("HEAD", <<"release", ver, Head(links)>>)
              IN  /\ Len(trace') > Len(trace)
                  /\ SubSeq(trace', 1, Len(trace) + 1) = Append(trace, req)
                  /\ \A i \in Len(trace) + 2 .. Len(trace') : trace'[i].type # "request"
                  /\ links' \in {Tail(links), <<>>}
                  /\ response' # 200 => (trace' = Append(trace, req) /\ cache' = cache)
                  /\ trace' # Append(trace, req)
                     => /\ response' = 200
                        /\ Len(trace') = Len(trace) + 2
                        /\ trace'[Len(trace')].type = "links"
                        /\ trace'[Len(trace')].build.link = req.url
                  /\ cache' # cache
                     => /\ response' = 200
                        /\ cache'[ver].assets
                             = Append(cache[ver].assets, trace'[Len(trace')].build)
                        /\ \A v \in DOMAIN cache \ {ver} : cache'[v] = cache[v] ]_vars

\* a crawled folder: the first matching link resolved with status 200 and gave a
\* stored record, the probe of the second one returned 404 and gave nothing
C15_Witness ==
    /\ pc = "stable_links" /\ mode = "stale" /\ links = <<>> /\ response = 404
    /\ Len(trace) = 4
    /\ trace[2].type = "request" /\ trace[2].method = "HEAD"
    /\ trace[3].type = "links" /\ trace[3].build.link = trace[2].url
    /\ trace[4].type = "request" /\ trace[4].method = "HEAD"
    /\ Len(cache[releases[idx].ver].assets) = 1

\* a branch document has just been parsed and its builds emitted
BranchParsed == pc = "auto_branch" /\ trace # <<>> /\ response = 200

\* the entries of the parsed document of this platform whose file name the filter
\* matches, in document order
OfPlatform ==
    SelectSeq(data, LAMBDA e : /\ e.platform = JsonPlatform(platform)
                               /\ B3dLinkMatches(platform, e.file_name))

\* those of OfPlatform of this architecture, compared without case
OfArchitecture ==
    SelectSeq(OfPlatform, LAMBDA e : Lower(e.architecture) = Lower(architecture))

\* C16: when a branch document has been parsed, the records emitted for it are, in
\* document order, the entries matching platform, architecture and filter if there
\* is one, and else the entries matching platform and filter; this holds for every
\* branch whatever the branches before it emitted, and the records carry the
\* architecture suffix exactly when the branch fell back.
C16_ArchitectureFallback ==
    BranchParsed
    => LET want == IF OfArchitecture # <<>> THEN OfArchitecture ELSE OfPlatform
           got == Emitted(trace)
       IN  /\ Len(got) = Len(want)
           /\ \A i \in 1..Len(got) :
                /\ got[i].link = want[i].url
                /\ (\E k \in 1..Len(got[i].version[2]) : got[i].version[2][k] = " | ")
                   <=> OfArchitecture = <<>>

\* the second branch of a run fell back to the entries of the platform and emitted one
C16_Witness ==
    /\ BranchParsed /\ branches = <<"patch">>
    /\ OfArchitecture = <<>> /\ OfPlatform # <<>>
    /\ Emitted(trace) # <<>>

\* the variant the rules give for an entry on a branch: the branch name on the
\* experimental branch, release_cycle on the daily branch, else the patch field on a
\* branch other than daily; the empty text when the field of the rule is absent
RuleVariant(e, branch_type) ==
    IF branch_type = "experimental" /\ e.branch \notin {<<>>, <<"">>} THEN e.branch[1]
    ELSE IF branch_type = "daily"
    THEN (IF e.release_cycle # <<>> THEN e.release_cycle[1] ELSE "")
    ELSE IF e.patch # <<>> THEN e.patch[1] ELSE ""

\* the architecture named after the variant when the entry is not of the host's
\* architecture
ArchitectureSuffix(e) ==
    IF Lower(e.architecture) = Lower(architecture) THEN <<>>
    ELSE <<" | ", IF e.architecture = "amd64" THEN "x86_64" ELSE e.architecture>>

\* C17: the record of an entry has the entry's version number, and its prerelease
\* part is the variant the rules give followed by the architecture suffix of a
\* platform-only match; when both are empty the version has no prerelease part.
C17_VariantDerivation ==
    pc = "auto_parsed"
    => LET e == data[1]
           got == Emitted(trace)
           variant == RuleVariant(e, Head(branches))
       IN  /\ Len(got) = 1
           /\ got[1].version[1] = e.version
           /\ got[1].version[2]
                = (IF variant = "" THEN <<>> ELSE <<variant>>) \o ArchitectureSuffix(e)
           /\ (variant = "" /\ ArchitectureSuffix(e) = <<>>) => got[1].version[2] = <<>>

\* an entry of the host's architecture with a patch and a branch name, on the
\* experimental branch: the branch name is the variant
C17_Witness ==
    /\ pc = "auto_parsed" /\ Head(branches) = "experimental"
    /\ data[1].patch = <<"PR1">> /\ data[1].branch = <<"main">>
    /\ ArchitectureSuffix(data[1]) = <<>>
    /\ Emitted(trace)[1].version = <<"4.2.0", <<"main">>>>

\* C18: the automated adapter starts every run with the three branch types, whatever
\* the caches and the runs before hold; the step of a branch issues exactly one
\* request, for that branch type, and unless it was the last branch the adapter goes
\* on to the next one; no step of the adapter changes a cache, a cache file or the
\* dirty flag.
C18_AutomatedStateless ==
    [][ /\ pc = "auto_start" => branches' = <<"daily", "experimental", "patch">>
        /\ (pc = "auto_branch" /\ branches # <<>>)
           => /\ trace' # <<>>
              /\ trace'[1].type = "request" /\ trace'[1].method = "GET"
              /\ \E archive \in BOOLEAN : trace'[1].url = <<"builder", Head(branches), archive>>
              /\ \A i \in 2..Len(trace') : trace'[i].type # "request"
              /\ \/ pc' = "auto_branch" /\ branches' = Tail(branches)
                 \/ pc' = "auto_fallback" /\ branches' = branches
                 \/ Tail(branches) = <<>>
        /\ pc = "auto_fallback"
           => /\ \A i \in 1..Len(trace') : trace'[i].type = "request" => i = 1
              /\ \/ pc' = "auto_fallback" /\ branches' = branches
                 \/ pc' = "auto_branch" /\ branches' = Tail(branches)
        /\ pc \in {"auto_start", "auto_branch", "auto_fallback"}
           => /\ cache' = cache /\ bfa_cache' = bfa_cache
              /\ cache_file' = cache_file /\ bfa_cache_file' = bfa_cache_file
              /\ cache_modified' = cache_modified ]_vars

\* C20: new_build for a version the cache does not hold returns a folder with no
\* assets, dated EPOCH when no date is given and the date given otherwise; after the
\* call the cache holds the version, get returns the folder returned, and the folder
\* of every other version is the one held before.
C20_NewBuild ==
    [][ pc = "idle"
        => LET ver == trace'[1].args[1]
               dt == trace'[1].args[2]
               folder == trace'[1].result
           IN  /\ trace'[1].name = "new_build"
               /\ ver \notin DOMAIN cache
               /\ folder.assets = <<>>
               /\ folder.modified_date = (IF dt = <<>> THEN EPOCH ELSE dt[1])
               /\ ver \in DOMAIN cache'
               /\ cache'[ver] = folder
               /\ DOMAIN cache' = DOMAIN cache \cup {ver}
               /\ \A v \in DOMAIN cache : cache'[v] = cache[v] ]_vars

\* a folder was registered with a date given, next to the folder of another version
C20_Witness ==
    /\ pc = "idle" /\ trace[1].name = "new_build"
    /\ trace[1].args[2] # <<>> /\ trace[1].args[2][1] # EPOCH
    /\ Cardinality(DOMAIN cache) = 2
    /\ cache[trace[1].args[1]] = trace[1].result
    /\ \E v \in DOMAIN cache : cache[v].assets # <<>>

\* C21: when the refresh of a stale stable folder has ended and its last request (the
\* folder page or the probe of its last link) got no response, the cache does not
\* hold the folder under the date observed: a later run that lists the folder with
\* the same date finds it stale and crawls it again.
C21_FailedRefreshRetried ==
    (StableRefreshEnded /\ response = 0)
    => StableStale(cache[Current.ver], Current.date)

\* the positions of the listing whose folder is at or above the floor and has a date
\* that was parsed
RetainedDated ==
    { i \in 1..Len(releases) :
        releases[i].ver >= minimum_smver_version /\ releases[i].kind = "date" }

\* C22: at the step that ends a stable pass, every retained folder with a parsed date
\* is a key of the cache under the date listed in this run; and if one of them was
\* not a key of the cache at the start of the run, or was held under another date,
\* the cache file after the step is the cache as it stands.
C22_PassLeavesCacheCurrent ==
    [][ (pc = "stable_release" /\ idx > Len(releases))
        => /\ \A i \in RetainedDated :
                /\ releases[i].ver \in DOMAIN cache
                /\ cache[releases[i].ver].modified_date = releases[i].date
           /\ (\E i \in RetainedDated :
                 \/ releases[i].ver \notin DOMAIN cache0
                 \/ cache0[releases[i].ver].modified_date # releases[i].date)
              => cache_file' = <<ToDict(cache)>> ]_vars

\* C23: the requests the stable adapter has issued for the resource it handles (the
\* index, or one folder with its links) are pairwise different: the folder page is
\* requested at most once and every link is probed at most once.
C23_NoRepeatedFetch ==
    \A i, j \in 1..Len(trace) :
        (/\ i < j
         /\ trace[i].type = "request" /\ trace[i].url[1] = "release"
         /\ trace[j].type = "request")
        => trace[i] # trace[j]

\* C24: no step of the stable adapter changes the community cache or its file, and
\* no step of the community adapter changes the stable cache or its file.
C24_CachesIndependent ==
    [][ /\ pc \in {"stable_index", "stable_release", "stable_plain", "stable_links"}
           => bfa_cache' = bfa_cache /\ bfa_cache_file' = bfa_cache_file
        /\ pc \in {"bfa_root", "bfa_directory", "bfa_release"}
           => cache' = cache /\ cache_file' = cache_file ]_vars

\* a run in which both adapters changed their cache and wrote their file has ended
C24_Witness ==
    /\ pc = "idle" /\ ~aborted
    /\ cache # cache0 /\ bfa_cache # bfa_cache0
    /\ cache_file = <<ToDict(cache)>> /\ bfa_cache_file = <<ToDict(bfa_cache)>>
    /\ order = <<"stable", "bfa">>

\* C25: no probe response is left unreleased when new_blender_build has returned; the
\* index response is not left unreleased when the stable adapter has ended; the
\* response of get_tag is not left unreleased when the function has returned; no
\* response of get_api_data is left unreleased when the function has returned, no
\* response to the request of a branch document is left unreleased, and no folder
\* page is left unreleased when the crawl of the folder is over.
C25_ResponsesReleased ==
    /\ "probe" \notin held
    /\ pc # "stable_links" => "folder" \notin held
    /\ pc \notin {"stable_index", "stable_release", "stable_plain", "stable_links"}
       => "index" \notin held
    /\ "tag" \notin held
    /\ "api" \notin held
    /\ "builder" \notin held

\* the checks of write permission among the events evs, returned or raised
RECURSIVE Checks(_)
Checks(evs) ==
    IF evs = <<>> THEN <<>>
    ELSE (IF evs[1].type \in {"call", "raise"} /\ evs[1].name = "check_write_permission"
          THEN <<evs[1]>> ELSE <<>>) \o Checks(Tail(evs))

\* the check e returned a result
Returned(e) == e.type = "call"

RECURSIVE LastResult(_, _)
\* the result of the last check of cks that returned one, valid when there is none
LastResult(valid, cks) ==
    IF cks = <<>> THEN valid
    ELSE IF Returned(cks[Len(cks)]) THEN cks[Len(cks)].result
    ELSE LastResult(valid, SubSeq(cks, 1, Len(cks) - 1))

\* the validity stored when event i of evs happens, valid being stored before evs
StoredBefore(valid, evs, i) == LastResult(valid, Checks(SubSeq(evs, 1, i - 1)))

IsSignal(e, name) == e.type = "signal" /\ e.name = name

\* what C26 says of the signals: a check that returned is followed by
\* validity_changed, carrying its result, exactly when that result differs from the
\* validity stored before it; no validity_changed happens otherwise, and each
\* emitted value differs from the one emitted before; with check_perms enabled,
\* folder_changed is emitted only after a check of the new text that succeeded
SignalsTracked ==
    [][LET evs == trace'
       IN  \A i \in 1..Len(evs) :
              /\ (evs[i].type = "call")
                  => ((i < Len(evs) /\ IsSignal(evs[i + 1], "validity_changed"))
                      <=> evs[i].result # StoredBefore(is_valid, evs, i))
              /\ IsSignal(evs[i], "validity_changed")
                  => /\ i > 1 /\ evs[i - 1].type = "call"
                     /\ evs[i].value = evs[i - 1].result
                     /\ <<evs[i].value>> # LastEmitted(last_emitted, SubSeq(evs, 1, i - 1))
              /\ (IsSignal(evs[i], "folder_changed") /\ check_perms)
                  => LET before == Checks(SubSeq(evs, 1, i - 1))
                     IN  /\ before # <<>>
                         /\ Returned(before[Len(before)])
                         /\ before[Len(before)].result
                         /\ before[Len(before)].args = line_edit'
                         /\ evs[i].value = line_edit'
                         /\ is_valid'
      ]_vars

\* C26: in every call of prompt_folder, set_folder, check_write_permission or a
\* dialog answer, the last write-permission check made gives a result and is_valid ends as that result (and
\* is unchanged when no check was made); a check is followed by validity_changed,
\* carrying its result, exactly when that result differs from the validity stored
\* before it, so each emitted value differs from the one emitted before; with
\* check_perms enabled, folder_changed is emitted only after a check of the new text
\* that succeeded, and carries that text as its folder.
C26_ValidityTracked ==
    /\ [][LET cks == Checks(trace')
          IN  IF cks = <<>> THEN is_valid' = is_valid
              ELSE /\ Returned(cks[Len(cks)])
                   /\ is_valid' = cks[Len(cks)].result ]_vars
    /\ SignalsTracked

=============================================================================
